---- MODULE Spec2Model ----
(***************************************************************************)
(* Verification model of the subspace library's sum types.                 *)
(*                                                                         *)
(*  - Option<T> (subspace/option/option.h): every method is an operator    *)
(*    over the Option's storage cell, and an action that applies it to one *)
(*    of a few named Option objects.  The private Storage<T> class         *)
(*    (subspace/option/__private/storage.h) is modelled from the storage   *)
(*    cell lifecycle of the design document.                               *)
(*  - Choice storage (sus/choice/__private/storage.h): the recursive union *)
(*    Storage<I, ...> is a sequence of levels, every member function a     *)
(*    recursion over the levels.                                           *)
(***************************************************************************)
EXTENDS Integers, Sequences, FiniteSets, TLC

\* ------------------------------------------------------------------ bounds

\* Payload values are 0..MaxVal.
MaxVal == 1

\* T(): the value of a default-constructed payload.
DefaultT == 0

Values == 0..MaxVal

\* ------------------------------------------------------------------ state

VARIABLES
  tKind,      \* Option: the kind of the payload type T: "Trivial", "Copy" or "CloneOnly"
  options,    \* Option: the named Option<T> objects, slot -> [alive, t]
  zipped,     \* Option: the Option<Tuple<T, U>> object that zip() returns
  last,       \* Option: what the last method call was, on what, and what it returned
  panicked,   \* Option/Choice: a sus::check failed and the process terminated
  leaked,     \* Option: a payload's lifetime ended without its destructor running
  deadUse,    \* Option: a payload that was not live was destroyed, read or assigned
  alts,       \* Choice: the alternative list of the Choice type, index -> shape
  choices,    \* Choice: the named Choice objects, slot -> [alive, index, storage]
  lastC,      \* Choice: what the last Choice operation was, on what, and what it did
  items,      \* Iterators: the elements of the slice or of the inner iterator
  setup,      \* Iterators: which iterator is running, its chunk size or predicate
  iter,       \* Iterators: the fields of the iterator, and of what consumes it
  yields      \* Iterators: what the calls made so far returned, in order

optVars == <<tKind, options, zipped, last, leaked, deadUse>>

choiceVars == <<alts, choices, lastC>>

iterVars == <<items, setup, iter, yields>>

vars == <<optVars, choiceVars, iterVars, panicked>>

\* No iterator was made.
IdleIter ==
  /\ items = <<>>
  /\ setup = [kind |-> "-"]
  /\ iter = [phase |-> "-"]
  /\ yields = <<>>

\* ----------------------------------------------------------- Option: Storage

None == "None"
Some == "Some"

\* Storage<T>: the discriminant state_ and the union member val_, which is
\* <<>> while no payload is constructed in it and <<v>> while one is live.
\* leak and dead record a construction over a live payload and the use of a
\* payload that is not live; dtor counts the payloads destroyed in the cell
\* during the current call (a payload moved out first is not one of them).
EmptyStorage ==
  [state |-> None, val |-> <<>>, leak |-> FALSE, dead |-> FALSE, dtor |-> 0]

Live(c) == c.val # <<>>

\* t_.val(): the payload, read.
Val(c) == IF Live(c) THEN c.val[1] ELSE DefaultT

\* std::construct_at(&val_, v).
ConstructAt(c, v) == [c EXCEPT !.val = <<v>>, !.leak = c.leak \/ Live(c)]

\* val_.~T() of a payload still holding its value.
DestructVal(c) ==
  [c EXCEPT !.val = <<>>, !.dead = c.dead \/ ~Live(c),
            !.dtor = IF Live(c) THEN c.dtor + 1 ELSE c.dtor]

\* The payload is moved out to the caller and the moved-from val_ destroyed.
MoveOutVal(c) == [c EXCEPT !.val = <<>>, !.dead = c.dead \/ ~Live(c)]

\* Storage(T&&) / Storage(const T&): constructed holding a value.
SomeStorage(v) == [EmptyStorage EXCEPT !.state = Some, !.val = <<v>>]

construct_from_none(c, v) == [ConstructAt(c, v) EXCEPT !.state = Some]

set_some(c, v) ==
  IF c.state = None
  THEN [ConstructAt(c, v) EXCEPT !.state = Some]
  ELSE [c EXCEPT !.val = <<v>>, !.dead = c.dead \/ ~Live(c)]

\* replace_some returns the old value; this is the cell afterwards.
replace_some(c, v) == [c EXCEPT !.val = <<v>>, !.dead = c.dead \/ ~Live(c)]

\* take_and_set_none returns Val(c); this is the cell afterwards.
take_and_set_none(c) == [MoveOutVal(c) EXCEPT !.state = None]

set_none(c) == [DestructVal(c) EXCEPT !.state = None]

destroy(c) == DestructVal(c)

\* The end of a storage cell's lifetime: a payload still live in it is never
\* destroyed.
Leaks(c) == c.leak \/ Live(c)

\* ----------------------------------------------------------- Option: methods

\* What a method call leaves behind: the Option's own cell, the Option it
\* returns (out, none or one), the T it returns or refers to (val, none or
\* one), how often it invoked the function it was given, whether a sus::check
\* failed, and the temporaries whose lifetime ended inside the call.
Res(self, out, val, calls) ==
  [self |-> self, out |-> out, val |-> val, calls |-> calls,
   panic |-> FALSE, tmp |-> <<>>]

\* ::sus::check(cond) failed: the process terminates, nothing is returned.
Panic(self) ==
  [self |-> self, out |-> <<>>, val |-> <<>>, calls |-> 0,
   panic |-> TRUE, tmp |-> <<>>]

\* Option(): holding no value.
OptionDefault == EmptyStorage

\* explicit Option(T&&) / Option(const T&): the constructors for Some.
OptionSome(v) == SomeStorage(v)

\* Option::with(t).
with(v) == OptionSome(v)

\* Mutant: the destructor never destroys the payload.
OptionDtor_skips(c) == c

\* ~Option().
OptionDtor(c) == IF c.state = Some THEN destroy(c) ELSE c

\* A temporary or parameter Option going out of scope: the destructor runs
\* and the storage's lifetime ends.
Drop(c) == OptionDtor(c)

\* Option(const Option& o).
OptionCopy(o) ==
  IF o.state = Some THEN construct_from_none(EmptyStorage, Val(o))
  ELSE EmptyStorage

\* Mutant: the moved-from Option keeps its state.
OptionMove_keeps_state(o) ==
  IF o.state = Some
  THEN [self |-> construct_from_none(EmptyStorage, Val(o)), o |-> MoveOutVal(o)]
  ELSE [self |-> EmptyStorage, o |-> o]

\* Option(Option&& o): the new Option, and o afterwards.
OptionMove(o) ==
  IF o.state = Some
  THEN [self |-> construct_from_none(EmptyStorage, Val(o)),
        o |-> take_and_set_none(o)]
  ELSE [self |-> EmptyStorage, o |-> o]

\* operator=(const Option& o).
CopyAssign(c, o) ==
  IF o.state = Some THEN set_some(c, Val(o))
  ELSE IF c.state = Some THEN set_none(c)
  ELSE c

\* operator=(Option&& o): this Option, and o afterwards.
MoveAssign(c, o) ==
  IF o.state = Some
  THEN [self |-> set_some(c, Val(o)), o |-> take_and_set_none(o)]
  ELSE IF c.state = Some THEN [self |-> set_none(c), o |-> o]
  ELSE [self |-> c, o |-> o]

\* Option(Option&& o) = default, for a T that is trivially move-constructible:
\* t_ is copied as raw memory and o is left as it was.
OptionMoveDefaulted(o) == [self |-> [o EXCEPT !.dtor = 0], o |-> o]

\* operator=(Option&& o) = default, for a T that is trivially move-assignable:
\* t_ is overwritten with o's, and o is left as it was.
MoveAssignDefaulted(c, o) ==
  [self |-> [c EXCEPT !.state = o.state, !.val = o.val], o |-> o]

\* ~Option() = default, for a T that is trivially destructible: no destructor
\* is called, the payload's lifetime ends with its storage.
OptionDtorDefaulted(c) == [c EXCEPT !.val = <<>>]

\* The special member functions the constraints select for a T of this kind.
MoveCtorOf(kind, o) ==
  IF kind = "Trivial" THEN OptionMoveDefaulted(o) ELSE OptionMove(o)

MoveAssignOf(kind, c, o) ==
  IF kind = "Trivial" THEN MoveAssignDefaulted(c, o) ELSE MoveAssign(c, o)

DtorOf(kind, c) ==
  IF kind = "Trivial" THEN OptionDtorDefaulted(c) ELSE OptionDtor(c)

is_some(c) == c.state = Some

is_none(c) == c.state = None

\* Mutant: the payload is read after it was moved out and destroyed.
unwrap_unchecked_stale(c) ==
  Res(take_and_set_none(c), <<>>, <<Val(take_and_set_none(c))>>, 0)

\* unwrap_unchecked(unsafe_fn) &&.
unwrap_unchecked(c) == Res(take_and_set_none(c), <<>>, <<Val(c)>>, 0)

\* expect(msg) &&.
expect(c) == IF c.state = Some THEN unwrap_unchecked(c) ELSE Panic(c)

\* Mutant: unwrap without its check.
unwrap_nocheck(c) == unwrap_unchecked(c)

\* unwrap() &&.
unwrap(c) == IF c.state = Some THEN unwrap_unchecked(c) ELSE Panic(c)

\* unwrap_or(default_result) &&.
unwrap_or(c, d) ==
  IF c.state = Some THEN Res(take_and_set_none(c), <<>>, <<Val(c)>>, 0)
  ELSE Res(c, <<>>, <<d>>, 0)

\* unwrap_or_else(f) &&, f() returning fv.
unwrap_or_else(c, fv) ==
  IF c.state = Some THEN Res(take_and_set_none(c), <<>>, <<Val(c)>>, 0)
  ELSE Res(c, <<>>, <<fv>>, 1)

\* unwrap_or_default() &&.
unwrap_or_default(c) ==
  IF c.state = Some THEN Res(take_and_set_none(c), <<>>, <<Val(c)>>, 0)
  ELSE Res(c, <<>>, <<DefaultT>>, 0)

\* as_value() const&: a reference to the payload.
as_value(c) == IF c.state = Some THEN Res(c, <<>>, <<Val(c)>>, 0) ELSE Panic(c)

\* as_value_mut() &.
as_value_mut(c) ==
  IF c.state = Some THEN Res(c, <<>>, <<Val(c)>>, 0) ELSE Panic(c)

\* Mutant: operator* without its check.
deref_nocheck(c) == Res(c, <<>>, <<Val(c)>>, 0)

\* operator*() const& and &.
deref(c) == IF c.state = Some THEN Res(c, <<>>, <<Val(c)>>, 0) ELSE Panic(c)

\* operator->() const& and &.
arrow(c) == IF c.state = Some THEN Res(c, <<>>, <<Val(c)>>, 0) ELSE Panic(c)

\* insert(t) &.
insert(c, v) ==
  LET c2 == set_some(c, v) IN Res(c2, <<>>, <<Val(c2)>>, 0)

\* Mutant: get_or_insert stores t whatever the Option holds.
get_or_insert_overwrites(c, v) ==
  LET c2 == set_some(c, v) IN Res(c2, <<>>, <<Val(c2)>>, 0)

\* get_or_insert(t) &.
get_or_insert(c, v) ==
  LET c2 == IF c.state = None THEN construct_from_none(c, v) ELSE c
  IN  Res(c2, <<>>, <<Val(c2)>>, 0)

\* get_or_insert_default() &.
get_or_insert_default(c) ==
  LET c2 == IF c.state = None THEN construct_from_none(c, DefaultT) ELSE c
  IN  Res(c2, <<>>, <<Val(c2)>>, 0)

\* get_or_insert_with(f) &, f() returning fv.
get_or_insert_with(c, fv) ==
  IF c.state = None
  THEN LET c2 == construct_from_none(c, fv) IN Res(c2, <<>>, <<Val(c2)>>, 1)
  ELSE Res(c, <<>>, <<Val(c)>>, 0)

\* Mutant: take without looking at the state.
take_unchecked(c) ==
  Res(take_and_set_none(c), <<OptionSome(Val(c))>>, <<>>, 0)

\* take() &.
take(c) ==
  IF c.state = Some
  THEN Res(take_and_set_none(c), <<OptionSome(Val(c))>>, <<>>, 0)
  ELSE Res(c, <<OptionDefault>>, <<>>, 0)

\* Mutant: replace hands out the old value and forgets to store the new one.
replace_forgets(c, v) ==
  IF c.state = None
  THEN Res(construct_from_none(c, v), <<OptionDefault>>, <<>>, 0)
  ELSE Res(take_and_set_none(c), <<OptionSome(Val(c))>>, <<>>, 0)

\* Mutant: replace destroys the old payload and returns None.
replace_destroys(c, v) ==
  IF c.state = None
  THEN Res(construct_from_none(c, v), <<OptionDefault>>, <<>>, 0)
  ELSE Res(set_some(set_none(c), v), <<OptionDefault>>, <<>>, 0)

\* replace(t) &.
replace(c, v) ==
  IF c.state = None
  THEN Res(construct_from_none(c, v), <<OptionDefault>>, <<>>, 0)
  ELSE Res(replace_some(c, v), <<OptionSome(Val(c))>>, <<>>, 0)

\* map(m) &&, m a function on the payload values.
map(c, m) ==
  IF c.state = Some
  THEN Res(take_and_set_none(c), <<OptionSome(m[Val(c)])>>, <<>>, 1)
  ELSE Res(c, <<OptionDefault>>, <<>>, 0)

\* Mutant: a rejected payload is left in place.
filter_keeps(c, p) ==
  IF c.state = Some
  THEN IF p[Val(c)]
       THEN Res(take_and_set_none(c), <<OptionSome(Val(c))>>, <<>>, 1)
       ELSE Res(c, <<OptionDefault>>, <<>>, 1)
  ELSE Res(c, <<OptionDefault>>, <<>>, 0)

\* filter(p) &&, p a predicate on the payload values.
filter(c, p) ==
  IF c.state = Some
  THEN IF p[Val(c)]
       THEN Res(take_and_set_none(c), <<OptionSome(Val(c))>>, <<>>, 1)
       ELSE Res(set_none(c), <<OptionDefault>>, <<>>, 1)
  ELSE Res(c, <<OptionDefault>>, <<>>, 0)

\* `return opt;` of a by-value parameter: the returned Option is
\* move-constructed from the parameter, which then goes out of scope.
ReturnParam(self, opt) ==
  LET mv == OptionMove(opt)
  IN  [Res(self, <<mv.self>>, <<>>, 0) EXCEPT !.tmp = <<Drop(mv.o)>>]

\* and_that(opt) &&.
and_that(c, opt) ==
  IF c.state = Some
  THEN ReturnParam(set_none(c), opt)
  ELSE LET as == MoveAssign(opt, OptionDefault)
           r  == ReturnParam(c, as.self)
       IN  [r EXCEPT !.tmp = r.tmp \o <<Drop(as.o)>>]

\* Mutant: with both Some, xor_that leaves *this as it is.
xor_that_keeps(c, opt) ==
  IF c.state = Some
  THEN IF opt.state = None
       THEN [Res(take_and_set_none(c), <<OptionSome(Val(c))>>, <<>>, 0)
               EXCEPT !.tmp = <<Drop(opt)>>]
       ELSE [Res(c, <<OptionDefault>>, <<>>, 0) EXCEPT !.tmp = <<Drop(opt)>>]
  ELSE ReturnParam(c, opt)

\* xor_that(opt) &&.
xor_that(c, opt) ==
  IF c.state = Some
  THEN IF opt.state = None
       THEN [Res(take_and_set_none(c), <<OptionSome(Val(c))>>, <<>>, 0)
               EXCEPT !.tmp = <<Drop(opt)>>]
       ELSE [Res(set_none(c), <<OptionDefault>>, <<>>, 0)
               EXCEPT !.tmp = <<Drop(opt)>>]
  ELSE ReturnParam(c, opt)

\* zip(o) &&: the returned Option holds the Tuple of both payloads.
zip(c, o) ==
  IF o.state = None
  THEN [Res(IF c.state = Some THEN set_none(c) ELSE c, <<OptionDefault>>,
            <<>>, 0) EXCEPT !.tmp = <<Drop(o)>>]
  ELSE IF c.state = None
  THEN [Res(c, <<OptionDefault>>, <<>>, 0) EXCEPT !.tmp = <<Drop(o)>>]
  ELSE [Res(unwrap_unchecked(c).self, <<OptionSome(<<Val(c), Val(o)>>)>>,
            <<>>, 0) EXCEPT !.tmp = <<Drop(unwrap_unchecked(o).self)>>]

\* ::sus::clone(source) of a payload.
sus_clone(v) == v

\* Mutant: clone() returns an Option holding nothing.
clone_empty(c) == OptionDefault

\* clone() const&.
clone(c) ==
  IF c.state = Some THEN OptionSome(sus_clone(Val(c))) ELSE OptionDefault

\* ::sus::clone_into(dest, source), dest being the payload of cell c.
sus_clone_into(c, v) == [c EXCEPT !.val = <<v>>, !.dead = c.dead \/ ~Live(c)]

\* Mutant: clone_from destroys the payload and constructs the clone anew.
clone_from_rebuilds(c, source) ==
  LET as == MoveAssign(IF c.state = Some THEN set_none(c) ELSE c, clone(source))
  IN  [Res(as.self, <<>>, <<>>, 0) EXCEPT !.tmp = <<Drop(as.o)>>]

\* clone_from(source) &, source being another Option.
clone_from(c, source) ==
  IF c.state = Some /\ source.state = Some
  THEN Res(sus_clone_into(c, Val(source)), <<>>, <<>>, 0)
  ELSE LET as == MoveAssign(c, clone(source))
       IN  [Res(as.self, <<>>, <<>>, 0) EXCEPT !.tmp = <<Drop(as.o)>>]

\* ::sus::clone(*this) of an Option whose T is Copy: `return source;`.
clone_option(c) == OptionCopy(c)

\* map_or(default_result, m) &&.
map_or(c, d, m) ==
  IF c.state = Some
  THEN Res(take_and_set_none(c), <<>>, <<m[Val(c)]>>, 1)
  ELSE Res(c, <<>>, <<d>>, 0)

\* map_or_else(default_fn, m) &&, default_fn() returning dv.
map_or_else(c, dv, m) ==
  IF c.state = Some
  THEN Res(take_and_set_none(c), <<>>, <<m[Val(c)]>>, 1)
  ELSE Res(c, <<>>, <<dv>>, 1)

\* Mutant: and_then calls f although the Option is None.
and_then_always(c, f) ==
  Res(take_and_set_none(c), <<f[Val(c)]>>, <<>>, 1)

\* and_then(f) &&, f a function from the payload values to Options.
and_then(c, f) ==
  IF c.state = Some
  THEN Res(take_and_set_none(c), <<f[Val(c)]>>, <<>>, 1)
  ELSE Res(c, <<OptionDefault>>, <<>>, 0)

\* or_that(opt) &&.
or_that(c, opt) ==
  IF c.state = Some
  THEN [Res(take_and_set_none(c), <<OptionSome(Val(c))>>, <<>>, 0)
          EXCEPT !.tmp = <<Drop(opt)>>]
  ELSE ReturnParam(c, opt)

\* or_else(f) &&, f() returning the Option fo.
or_else(c, fo) ==
  IF c.state = Some
  THEN Res(take_and_set_none(c), <<OptionSome(Val(c))>>, <<>>, 0)
  ELSE Res(c, <<fo>>, <<>>, 1)

\* flatten() && of an Option<Option<T>>: the payload is the inner Option.
flatten(c) ==
  IF c.state = Some
  THEN Res(unwrap_unchecked(c).self, unwrap_unchecked(c).val, <<>>, 0)
  ELSE Res(c, <<OptionDefault>>, <<>>, 0)

\* The methods that have a const& overload, and the arguments of each.
LvalueMethods ==
  {"map", "map_or", "map_or_else", "filter", "and_that", "and_then",
   "or_that", "or_else", "xor_that", "zip", "flatten"}

\* method(args...) && on the Option c.
Call(name, c, a) ==
  CASE name = "map" -> map(c, a)
    [] name = "map_or" -> map_or(c, a[1], a[2])
    [] name = "map_or_else" -> map_or_else(c, a[1], a[2])
    [] name = "filter" -> filter(c, a)
    [] name = "and_that" -> and_that(c, a)
    [] name = "and_then" -> and_then(c, a)
    [] name = "or_that" -> or_that(c, a)
    [] name = "or_else" -> or_else(c, a)
    [] name = "xor_that" -> xor_that(c, a)
    [] name = "zip" -> zip(c, a)
    [] name = "flatten" -> flatten(c)

\* Mutant: the const& overload runs the method on *this.
on_lvalue_in_place(name, c, a) == Call(name, c, a)

\* method(args...) const&: `return ::sus::clone(*this).method(args...);` the
\* method runs on a copy, a temporary destroyed at the end of the call.
on_lvalue(name, c, a) ==
  LET r == Call(name, clone_option(c), a)
  IN  [r EXCEPT !.self = c, !.tmp = r.tmp \o <<Drop(r.self)>>]

\* Mutant: two Options compare equal when both are Some.
OptionEq_ignores_value(l, r) ==
  IF l.state = Some THEN is_some(r) ELSE is_none(r)

\* operator==(const Option& l, const Option& r).
OptionEq(l, r) ==
  IF l.state = Some THEN is_some(r) /\ Val(l) = Val(r) ELSE is_none(r)

\* l <=> r on two payload values.
Compare(x, y) == IF x < y THEN "less" ELSE IF x > y THEN "greater" ELSE "equivalent"

\* operator<=>(const Option& l, const Option& r).
OptionCmp(l, r) ==
  IF l.state = Some
  THEN IF is_some(r) THEN Compare(Val(l), Val(r)) ELSE "greater"
  ELSE IF is_some(r) THEN "less" ELSE "equivalent"

\* ----------------------------------------------------------- Choice: Storage

\* The storage type of an alternative: the sentinel Nothing for one with no
\* value, Tuple<T> for one value, Tuple<Ts...> for two or more.
Nothing == "Nothing"
One == "One"
Many == "Many"

Shapes == {Nothing, One, Many}

\* A Choice has 1..MaxAlts alternatives.
MaxAlts == 3

AltLists == UNION {[0..(n - 1) -> Shapes] : n \in 1..MaxAlts}

\* The values an alternative is constructed from, as the tuple stored.
Payloads(shape) ==
  CASE shape = Nothing -> {<<>>}
    [] shape = One -> {<<v>> : v \in Values}
    [] shape = Many -> {<<v, MaxVal - v>> : v \in Values}

\* Storage<I, ...> with no Elements after it: the last level has no more_.
IsLast(I) == (I + 1) \notin DOMAIN alts

\* One level of the union: tuple_ is <<>> while not constructed and <<p>> while
\* the tuple p is live in it; more is whether the more_ member was made
\* active.  A tuple_ that was moved from stays live and, its elements being
\* integers, keeps its value.
EmptyLevel == [tuple |-> <<>>, more |-> FALSE]

\* constexpr Storage() {}: no member is constructed.  log lists what was done
\* to the tuple_ members during the current operation; leak and dead record a
\* construction over a live tuple_ and the use of a tuple_ that is not live;
\* panic a failed sus::check.
NewStorage ==
  [lv |-> [I \in DOMAIN alts |-> EmptyLevel], log |-> <<>>,
   panic |-> FALSE, leak |-> FALSE, dead |-> FALSE]

TupleLive(st, I) == st.lv[I].tuple # <<>>

\* tuple_, read.
TupleVal(st, I) == IF TupleLive(st, I) THEN st.lv[I].tuple[1] ELSE <<>>

\* std::construct_at(&tuple_, p).
ConstructTuple(st, I, p) ==
  [st EXCEPT !.lv[I].tuple = <<p>>,
             !.leak = @ \/ TupleLive(st, I),
             !.log = Append(@, <<"construct", I>>)]

\* tuple_ = p.
AssignTuple(st, I, p) ==
  [st EXCEPT !.lv[I].tuple = <<p>>,
             !.dead = @ \/ ~TupleLive(st, I),
             !.log = Append(@, <<"assign", I>>)]

\* tuple_.~Type().
DestroyTuple(st, I) ==
  [st EXCEPT !.lv[I].tuple = <<>>,
             !.dead = @ \/ ~TupleLive(st, I),
             !.log = Append(@, <<"destroy", I>>)]

\* std::construct_at(&more_).
ConstructMore(st, I) == [st EXCEPT !.lv[I].more = TRUE]

\* more_.~Storage<I + 1, Elements...>().
DestroyMore(st, I) == [st EXCEPT !.lv[I].more = FALSE]

\* from.tuple_ is read by an operation on st.
Reading(st, from, I) == [st EXCEPT !.dead = @ \/ ~TupleLive(from, I)]

\* ::sus::check(index == I) failed.
CheckFailed(st) == [st EXCEPT !.panic = TRUE]

\* Mutant: the more_ members on the way down are not made active.
activate_for_construct_flat(st, I, index) ==
  IF IsLast(I) /\ index # I THEN CheckFailed(st) ELSE st

RECURSIVE activate_for_construct(_, _, _)
activate_for_construct(st, I, index) ==
  IF IsLast(I)
  THEN IF index = I THEN st ELSE CheckFailed(st)
  ELSE IF index # I
       THEN activate_for_construct(ConstructMore(st, I), I + 1, index)
       ELSE st

\* construct_choice_storage<I>(storage): I steps down the more_ members, each
\* made active; the storage as left, and the level returned.
RECURSIVE construct_choice_storage(_, _, _)
construct_choice_storage(st, level, I) ==
  IF I = 0 THEN [storage |-> st, level |-> level]
  ELSE construct_choice_storage(ConstructMore(st, level), level + 1, I - 1)

\* The storage that holds alternative I: I steps down the more_ members.
RECURSIVE find_choice_storage(_, _)
find_choice_storage(level, I) ==
  IF I = 0 THEN level ELSE find_choice_storage(level + 1, I - 1)

\* construct(tuple) / construct(value) of the level that holds the alternative.
construct(st, I, p) == ConstructTuple(st, I, p)

\* assign(tuple) / assign(value) of the level that holds the alternative.
assign(st, I, p) == AssignTuple(st, I, p)

RECURSIVE move_construct(_, _, _, _)
move_construct(st, I, index, from) ==
  IF IsLast(I)
  THEN IF index # I THEN CheckFailed(st)
       ELSE IF alts[I] = Nothing THEN st
       ELSE ConstructTuple(Reading(st, from, I), I, TupleVal(from, I))
  ELSE IF alts[I] = Nothing
  THEN IF index # I
       THEN move_construct(ConstructMore(st, I), I + 1, index, from)
       ELSE st
  ELSE IF index = I
       THEN ConstructTuple(Reading(st, from, I), I, TupleVal(from, I))
       ELSE move_construct(ConstructMore(st, I), I + 1, index, from)

RECURSIVE move_assign(_, _, _, _)
move_assign(st, I, index, from) ==
  IF IsLast(I)
  THEN IF index # I THEN CheckFailed(st)
       ELSE IF alts[I] = Nothing THEN st
       ELSE AssignTuple(Reading(st, from, I), I, TupleVal(from, I))
  ELSE IF alts[I] = Nothing
  THEN IF index # I THEN move_assign(st, I + 1, index, from) ELSE st
  ELSE IF index = I
       THEN AssignTuple(Reading(st, from, I), I, TupleVal(from, I))
       ELSE move_assign(st, I + 1, index, from)

\* The copy that activates the levels and constructs no tuple_.
copy_construct_empty(st, I, index, from) ==
  activate_for_construct(st, I, index)

RECURSIVE copy_construct(_, _, _, _)
copy_construct(st, I, index, from) ==
  IF IsLast(I)
  THEN IF index # I THEN CheckFailed(st)
       ELSE IF alts[I] = Nothing THEN st
       ELSE ConstructTuple(Reading(st, from, I), I, TupleVal(from, I))
  ELSE IF alts[I] = Nothing
  THEN IF index # I
       THEN copy_construct(ConstructMore(st, I), I + 1, index, from)
       ELSE st
  ELSE IF index = I
       THEN ConstructTuple(Reading(st, from, I), I, TupleVal(from, I))
       ELSE copy_construct(ConstructMore(st, I), I + 1, index, from)

\* The assignment that constructs over the tuple_ it should assign to.
copy_assign_rebuilds(st, I, index, from) ==
  copy_construct(st, I, index, from)

RECURSIVE copy_assign(_, _, _, _)
copy_assign(st, I, index, from) ==
  IF IsLast(I)
  THEN IF index # I THEN CheckFailed(st)
       ELSE IF alts[I] = Nothing THEN st
       ELSE AssignTuple(Reading(st, from, I), I, TupleVal(from, I))
  ELSE IF alts[I] = Nothing
  THEN IF index # I THEN copy_assign(st, I + 1, index, from) ELSE st
  ELSE IF index = I
       THEN AssignTuple(Reading(st, from, I), I, TupleVal(from, I))
       ELSE copy_assign(st, I + 1, index, from)

\* Storage<I, Nothing, Elements...>::clone_construct steps into more_ without
\* constructing it; the other levels construct it first.
RECURSIVE clone_construct(_, _, _, _)
clone_construct(st, I, index, from) ==
  IF IsLast(I)
  THEN IF index # I THEN CheckFailed(st)
       ELSE IF alts[I] = Nothing THEN st
       ELSE ConstructTuple(Reading(st, from, I), I, TupleVal(from, I))
  ELSE IF alts[I] = Nothing
  THEN IF index # I THEN clone_construct(st, I + 1, index, from) ELSE st
  ELSE IF index = I
       THEN ConstructTuple(Reading(st, from, I), I, TupleVal(from, I))
       ELSE clone_construct(ConstructMore(st, I), I + 1, index, from)

\* destroy without the test of the index: tuple_ is destroyed at every level
\* on the way down.
RECURSIVE storage_destroy_eager(_, _, _)
storage_destroy_eager(st, I, index) ==
  IF IsLast(I) \/ index = I
  THEN IF alts[I] = Nothing THEN st ELSE DestroyTuple(st, I)
  ELSE DestroyMore(storage_destroy_eager(
         IF alts[I] = Nothing THEN st ELSE DestroyTuple(st, I), I + 1, index), I)

\* Storage<I, ...>::destroy(index).
RECURSIVE storage_destroy(_, _, _)
storage_destroy(st, I, index) ==
  IF IsLast(I)
  THEN IF index # I THEN CheckFailed(st)
       ELSE IF alts[I] = Nothing THEN st
       ELSE DestroyTuple(st, I)
  ELSE IF alts[I] = Nothing
  THEN IF index # I
       THEN DestroyMore(storage_destroy(st, I + 1, index), I)
       ELSE st
  ELSE IF index = I
       THEN DestroyTuple(st, I)
       ELSE DestroyMore(storage_destroy(st, I + 1, index), I)

\* std::strong_order / weak_order / partial_order of two Tuples of integers:
\* the order of the first elements that differ.
TupleOrder(p, q) ==
  IF p = q THEN "equivalent"
  ELSE LET k == CHOOSE k \in DOMAIN p :
                  p[k] # q[k] /\ \A j \in 1..(k - 1) : p[j] = q[j]
       IN  IF p[k] < q[k] THEN "less" ELSE "greater"

\* What a comparison gives when ::sus::check(index == I) fails, and when its
\* body names a member that Storage<I + 1, Elements...> does not have, so that
\* the function cannot be instantiated.
Terminated == <<>>
NoSuchMember == <<"no member">>

\* Storage<I, ...>::eq(index, other).
RECURSIVE eq(_, _, _, _)
eq(st, I, index, other) ==
  IF IsLast(I)
  THEN IF index # I THEN Terminated
       ELSE IF alts[I] = Nothing THEN <<TRUE>>
       ELSE <<TupleVal(st, I) = TupleVal(other, I)>>
  ELSE IF index = I
       THEN IF alts[I] = Nothing THEN <<TRUE>>
            ELSE <<TupleVal(st, I) = TupleVal(other, I)>>
       ELSE eq(st, I + 1, index, other)

\* Whether strong_ord of level I can be instantiated: the level of a
\* Tuple<Ts...> that has a more_ member calls more_.ord, which no Storage
\* declares; the other levels call more_.strong_ord.
RECURSIVE strong_ord_instantiates(_)
strong_ord_instantiates(I) ==
  IF IsLast(I) THEN TRUE
  ELSE IF alts[I] = Many THEN FALSE
  ELSE strong_ord_instantiates(I + 1)

\* Storage<I, ...>::strong_ord(index, other).
RECURSIVE strong_ord(_, _, _, _)
strong_ord(st, I, index, other) ==
  IF ~strong_ord_instantiates(I) THEN NoSuchMember
  ELSE IF IsLast(I)
  THEN IF index # I THEN Terminated
       ELSE IF alts[I] = Nothing THEN <<"equivalent">>
       ELSE <<TupleOrder(TupleVal(st, I), TupleVal(other, I))>>
  ELSE IF index = I
       THEN IF alts[I] = Nothing THEN <<"equivalent">>
            ELSE <<TupleOrder(TupleVal(st, I), TupleVal(other, I))>>
       ELSE strong_ord(st, I + 1, index, other)

\* Storage<I, ...>::weak_ord(index, other).
RECURSIVE weak_ord(_, _, _, _)
weak_ord(st, I, index, other) ==
  IF IsLast(I)
  THEN IF index # I THEN Terminated
       ELSE IF alts[I] = Nothing THEN <<"equivalent">>
       ELSE <<TupleOrder(TupleVal(st, I), TupleVal(other, I))>>
  ELSE IF index = I
       THEN IF alts[I] = Nothing THEN <<"equivalent">>
            ELSE <<TupleOrder(TupleVal(st, I), TupleVal(other, I))>>
       ELSE weak_ord(st, I + 1, index, other)

\* Storage<I, ...>::partial_ord(index, other).
RECURSIVE partial_ord(_, _, _, _)
partial_ord(st, I, index, other) ==
  IF IsLast(I)
  THEN IF index # I THEN Terminated
       ELSE IF alts[I] = Nothing THEN <<"equivalent">>
       ELSE <<TupleOrder(TupleVal(st, I), TupleVal(other, I))>>
  ELSE IF index = I
       THEN IF alts[I] = Nothing THEN <<"equivalent">>
            ELSE <<TupleOrder(TupleVal(st, I), TupleVal(other, I))>>
       ELSE partial_ord(st, I + 1, index, other)

\* ------------------------------------------------------------ Choice: class

\* A Choice: the runtime index of the active alternative and the storage.
NoChoice == [alive |-> FALSE, index |-> 0, storage |-> NewStorage]

ChoiceOf(index, st) == [alive |-> TRUE, index |-> index, storage |-> st]

\* Choice::with<i>(values...): activates the levels down to i, then constructs
\* the values there; an alternative of no value constructs nothing.
choice_with(i, p) ==
  LET st == activate_for_construct(NewStorage, 0, i)
  IN  ChoiceOf(i, IF alts[i] = Nothing \/ st.panic THEN st
                  ELSE construct(st, find_choice_storage(0, i), p))

\* as<j>(): a contract violation unless j is the active alternative, else the
\* value(s) of alternative j.
choice_as(c, j) ==
  IF c.index # j
  THEN [self |-> CheckFailed(c.storage), ret |-> <<>>]
  ELSE IF alts[j] = Nothing
  THEN [self |-> c.storage, ret |-> <<<<>>>>]
  ELSE [self |-> Reading(c.storage, c.storage, j),
        ret |-> <<TupleVal(c.storage, find_choice_storage(0, j))>>]

\* set<j>(values...): assigns within the active alternative, else destroys
\* the old alternative and constructs the new one.
choice_set(c, j, p) ==
  IF c.index = j
  THEN ChoiceOf(j, IF alts[j] = Nothing THEN c.storage
                   ELSE assign(c.storage, find_choice_storage(0, j), p))
  ELSE LET gone == storage_destroy(c.storage, 0, c.index)
           st == activate_for_construct(gone, 0, j)
       IN  ChoiceOf(j, IF alts[j] = Nothing \/ st.panic THEN st
                       ELSE construct(st, find_choice_storage(0, j), p))

\* Choice(const Choice&).
choice_copy(o) == ChoiceOf(o.index, copy_construct(NewStorage, 0, o.index, o.storage))

\* Choice(Choice&&): the source keeps its index and a moved-from payload.
choice_move(o) == ChoiceOf(o.index, move_construct(NewStorage, 0, o.index, o.storage))

\* clone().
choice_clone(o) == ChoiceOf(o.index, clone_construct(NewStorage, 0, o.index, o.storage))

\* operator=(const Choice&).
choice_copy_assign(c, o) ==
  IF c.index = o.index
  THEN ChoiceOf(c.index, copy_assign(c.storage, 0, c.index, o.storage))
  ELSE ChoiceOf(o.index,
         copy_construct(storage_destroy(c.storage, 0, c.index), 0, o.index, o.storage))

\* operator=(Choice&&).
choice_move_assign(c, o) ==
  IF c.index = o.index
  THEN ChoiceOf(c.index, move_assign(c.storage, 0, c.index, o.storage))
  ELSE ChoiceOf(o.index,
         move_construct(storage_destroy(c.storage, 0, c.index), 0, o.index, o.storage))

\* ~Choice().
choice_dtor(c) ==
  [NoChoice EXCEPT !.storage = storage_destroy(c.storage, 0, c.index)]

\* The last operation: its name, the Choice it was called on or read (self),
\* the other Choice involved (out), the index self had before, the index and
\* values given, what it returned, what it did to the tuple_ members, and,
\* for an operation that only reads self, self as it was before.
NoChoiceCall ==
  [op |-> "-", self |-> "-", out |-> "-", was |-> 0, index |-> 0,
   arg |-> <<>>, ret |-> <<>>, log |-> <<>>, returned |-> TRUE,
   pre |-> NoChoice, equal |-> <<>>, order |-> <<>>]

\* ----------------------------------------------------------- Option: actions

\* The Option<T> objects of the program; the Option a call returns is bound
\* to the one that is not in use.
Slots == {"a", "b"}

NoCall ==
  [op |-> "-", self |-> "-", pre |-> EmptyStorage, arg |-> <<>>, ret |-> <<>>,
   out |-> "-", calls |-> 0, drops |-> 0, returned |-> TRUE,
   lvalue |-> FALSE, equal |-> <<>>, order |-> <<>>]

\* The payloads destroyed in the cells cs during a call.
RECURSIVE Dtors(_)
Dtors(cs) == IF cs = <<>> THEN 0 ELSE Head(cs).dtor + Dtors(Tail(cs))

\* A cell as it is kept between calls.
Kept(c) == [c EXCEPT !.dtor = 0]

Dead == [alive |-> FALSE, t |-> EmptyStorage]

\* An Option passed by value: a prvalue the parameter is initialised from.
ArgOptions == {OptionDefault} \cup {with(v) : v \in Values}

InitOption ==
  /\ tKind \in {"Copy", "CloneOnly"}
  /\ options = [s \in Slots |-> Dead]
  /\ zipped = Dead
  /\ last = NoCall
  /\ leaked = FALSE
  /\ deadUse = FALSE
  /\ alts = <<>>
  /\ choices = [s \in Slots |-> NoChoice]
  /\ lastC = NoChoiceCall
  /\ IdleIter
  /\ panicked = FALSE

\* The call `name` on the Option in slot s with argument arg left r behind;
\* the Option it returned, if any, is bound to the unused slot d.
FinishAs(name, lv, s, arg, r, d) ==
  /\ options' = [x \in Slots |->
        IF x = s THEN [options[s] EXCEPT !.t = Kept(r.self)]
        ELSE IF x = d /\ r.out # <<>> THEN [alive |-> TRUE, t |-> Kept(r.out[1])]
        ELSE options[x]]
  /\ last' = [op |-> name, self |-> s, pre |-> options[s].t, arg |-> arg,
              ret |-> r.val, out |-> IF r.out # <<>> THEN d ELSE "-",
              calls |-> r.calls, drops |-> Dtors(<<r.self>> \o r.tmp),
              returned |-> ~r.panic, lvalue |-> lv, equal |-> <<>>,
              order |-> <<>>]
  /\ panicked' = r.panic
  /\ leaked' = (leaked \/ \E i \in DOMAIN r.tmp : Leaks(r.tmp[i]))
  /\ deadUse' = (deadUse \/ \E i \in DOMAIN r.tmp : r.tmp[i].dead)
  /\ UNCHANGED <<choiceVars, iterVars, tKind, zipped>>

\* The call of an rvalue overload, or of a method that has only one form.
Finish(name, s, arg, r, d) == FinishAs(name, FALSE, s, arg, r, d)

\* A constructor started the lifetime of the Option in slot d, as cell c.
Construct(name, d, arg, c) ==
  /\ options' = [options EXCEPT ![d] = [alive |-> TRUE, t |-> c]]
  /\ last' = [NoCall EXCEPT !.op = name, !.arg = arg, !.out = d]
  /\ UNCHANGED <<choiceVars, iterVars, tKind, zipped, panicked, leaked, deadUse>>

Alive(s) == s \in Slots /\ options[s].alive

Unused(d) == d \in Slots /\ ~options[d].alive

New ==
  \E d \in Slots :
    /\ ~panicked /\ Unused(d)
    /\ Construct("Option", d, <<>>, OptionDefault)

With ==
  \E d \in Slots, v \in Values :
    /\ ~panicked /\ Unused(d)
    /\ Construct("with", d, <<v>>, with(v))

CopyConstruct ==
  \E d \in Slots, s \in Slots :
    /\ ~panicked /\ tKind = "Copy" /\ Unused(d) /\ Alive(s)
    /\ options' = [options EXCEPT ![d] = [alive |-> TRUE, t |-> OptionCopy(options[s].t)]]
    /\ last' = [NoCall EXCEPT !.op = "copy", !.self = s, !.pre = options[s].t,
                              !.out = d]
    /\ UNCHANGED <<choiceVars, iterVars, tKind, zipped, panicked, leaked, deadUse>>

MoveConstruct ==
  \E d \in Slots, s \in Slots :
    /\ ~panicked /\ Unused(d) /\ Alive(s)
    /\ LET mv == MoveCtorOf(tKind, options[s].t)
       IN  options' = [options EXCEPT ![d] = [alive |-> TRUE, t |-> Kept(mv.self)],
                                      ![s].t = Kept(mv.o)]
    /\ last' = [NoCall EXCEPT !.op = "move", !.self = s, !.pre = options[s].t,
                              !.out = d]
    /\ UNCHANGED <<choiceVars, iterVars, tKind, zipped, panicked, leaked, deadUse>>

\* d = s; with d and s two different Options.
CopyAssignment ==
  \E d \in Slots, s \in Slots :
    /\ ~panicked /\ tKind = "Copy" /\ Alive(d) /\ Alive(s) /\ d # s
    /\ LET c == CopyAssign(options[d].t, options[s].t)
       IN  /\ options' = [options EXCEPT ![d].t = Kept(c)]
           /\ last' = [NoCall EXCEPT !.op = "copy_assign", !.self = d,
                         !.pre = options[d].t, !.arg = <<options[s].t>>,
                         !.out = s, !.drops = c.dtor]
    /\ UNCHANGED <<choiceVars, iterVars, tKind, zipped, panicked, leaked, deadUse>>

\* d = sus::move(s); with d and s two different Options.
MoveAssignment ==
  \E d \in Slots, s \in Slots :
    /\ ~panicked /\ Alive(d) /\ Alive(s) /\ d # s
    /\ LET as == MoveAssignOf(tKind, options[d].t, options[s].t)
       IN  /\ options' = [options EXCEPT ![d].t = Kept(as.self),
                                          ![s].t = Kept(as.o)]
           /\ last' = [NoCall EXCEPT !.op = "move_assign", !.self = d,
                         !.pre = options[d].t, !.arg = <<options[s].t>>,
                         !.out = s, !.drops = Dtors(<<as.self, as.o>>)]
    /\ UNCHANGED <<choiceVars, iterVars, tKind, zipped, panicked, leaked, deadUse>>

Clone ==
  \E d \in Slots, s \in Slots :
    /\ ~panicked /\ tKind = "CloneOnly" /\ Unused(d) /\ Alive(s)
    /\ options' = [options EXCEPT ![d] = [alive |-> TRUE, t |-> clone(options[s].t)]]
    /\ last' = [NoCall EXCEPT !.op = "clone", !.self = s, !.pre = options[s].t,
                              !.out = d]
    /\ UNCHANGED <<choiceVars, iterVars, tKind, zipped, panicked, leaked, deadUse>>

\* d.clone_from(s); `if (&source == this) return;` when d and s are the same.
CloneFrom ==
  \E d \in Slots, s \in Slots :
    /\ ~panicked /\ tKind = "CloneOnly" /\ Alive(d) /\ Alive(s)
    /\ LET r == IF s = d THEN Res(options[d].t, <<>>, <<>>, 0)
                ELSE clone_from(options[d].t, options[s].t)
       IN  Finish("clone_from", d, <<options[s].t>>, r, "-")

\* The end of the lifetime of the Option in slot s.
Destroy ==
  \E s \in Slots :
    /\ ~panicked /\ Alive(s)
    /\ LET c == DtorOf(tKind, options[s].t)
       IN  /\ options' = [options EXCEPT ![s] = Dead]
           /\ leaked' = (leaked \/ Leaks(c))
           /\ deadUse' = (deadUse \/ c.dead)
           /\ last' = [NoCall EXCEPT !.op = "~Option", !.self = s,
                         !.pre = options[s].t, !.drops = c.dtor]
    /\ UNCHANGED <<choiceVars, iterVars, tKind, zipped, panicked>>

Insert ==
  \E s \in Slots, v \in Values :
    /\ ~panicked /\ Alive(s)
    /\ Finish("insert", s, <<v>>, insert(options[s].t, v), "-")

Replace ==
  \E s \in Slots, d \in Slots, v \in Values :
    /\ ~panicked /\ Alive(s) /\ Unused(d)
    /\ Finish("replace", s, <<v>>, replace(options[s].t, v), d)

GetOrInsert ==
  \E s \in Slots, v \in Values :
    /\ ~panicked /\ Alive(s)
    /\ Finish("get_or_insert", s, <<v>>, get_or_insert(options[s].t, v), "-")

GetOrInsertDefault ==
  \E s \in Slots :
    /\ ~panicked /\ Alive(s)
    /\ Finish("get_or_insert_default", s, <<>>,
              get_or_insert_default(options[s].t), "-")

GetOrInsertWith ==
  \E s \in Slots, fv \in Values :
    /\ ~panicked /\ Alive(s)
    /\ Finish("get_or_insert_with", s, <<fv>>,
              get_or_insert_with(options[s].t, fv), "-")

Take ==
  \E s \in Slots, d \in Slots :
    /\ ~panicked /\ Alive(s) /\ Unused(d)
    /\ Finish("take", s, <<>>, take(options[s].t), d)

Unwrap ==
  \E s \in Slots :
    /\ ~panicked /\ Alive(s)
    /\ Finish("unwrap", s, <<>>, unwrap(options[s].t), "-")

Expect ==
  \E s \in Slots :
    /\ ~panicked /\ Alive(s)
    /\ Finish("expect", s, <<>>, expect(options[s].t), "-")

UnwrapOr ==
  \E s \in Slots, v \in Values :
    /\ ~panicked /\ Alive(s)
    /\ Finish("unwrap_or", s, <<v>>, unwrap_or(options[s].t, v), "-")

UnwrapOrElse ==
  \E s \in Slots, fv \in Values :
    /\ ~panicked /\ Alive(s)
    /\ Finish("unwrap_or_else", s, <<fv>>, unwrap_or_else(options[s].t, fv), "-")

UnwrapOrDefault ==
  \E s \in Slots :
    /\ ~panicked /\ Alive(s)
    /\ Finish("unwrap_or_default", s, <<>>, unwrap_or_default(options[s].t), "-")

AsValue ==
  \E s \in Slots :
    /\ ~panicked /\ Alive(s)
    /\ Finish("as_value", s, <<>>, as_value(options[s].t), "-")

AsValueMut ==
  \E s \in Slots :
    /\ ~panicked /\ Alive(s)
    /\ Finish("as_value_mut", s, <<>>, as_value_mut(options[s].t), "-")

Deref ==
  \E s \in Slots :
    /\ ~panicked /\ Alive(s)
    /\ Finish("operator*", s, <<>>, deref(options[s].t), "-")

Arrow ==
  \E s \in Slots :
    /\ ~panicked /\ Alive(s)
    /\ Finish("operator->", s, <<>>, arrow(options[s].t), "-")

\* The payload functions handed to map and filter.
MapFns == [Values -> Values]

Predicates == [Values -> BOOLEAN]

\* last.arg of map and filter: what the function answers on the payload.
Answer(f, c) == IF c.state = Some THEN <<f[Val(c)]>> ELSE <<>>

Map ==
  \E s \in Slots, d \in Slots, m \in MapFns :
    /\ ~panicked /\ Alive(s) /\ Unused(d)
    /\ Finish("map", s, Answer(m, options[s].t), map(options[s].t, m), d)

Filter ==
  \E s \in Slots, d \in Slots, p \in Predicates :
    /\ ~panicked /\ Alive(s) /\ Unused(d)
    /\ Finish("filter", s, Answer(p, options[s].t), filter(options[s].t, p), d)

AndThat ==
  \E s \in Slots, d \in Slots, o \in ArgOptions :
    /\ ~panicked /\ Alive(s) /\ Unused(d)
    /\ Finish("and_that", s, <<o>>, and_that(options[s].t, o), d)

XorThat ==
  \E s \in Slots, d \in Slots, o \in ArgOptions :
    /\ ~panicked /\ Alive(s) /\ Unused(d)
    /\ Finish("xor_that", s, <<o>>, xor_that(options[s].t, o), d)

\* auto zipped = sus::move(s).zip(o);
Zip ==
  \E s \in Slots, o \in ArgOptions :
    /\ ~panicked /\ Alive(s) /\ ~zipped.alive
    /\ LET r == zip(options[s].t, o)
       IN  /\ options' = [options EXCEPT ![s].t = Kept(r.self)]
           /\ zipped' = [alive |-> TRUE, t |-> Kept(r.out[1])]
           /\ last' = [NoCall EXCEPT !.op = "zip", !.self = s,
                         !.pre = options[s].t, !.arg = <<o>>, !.out = "zipped",
                         !.drops = Dtors(<<r.self>> \o r.tmp)]
           /\ leaked' = (leaked \/ \E i \in DOMAIN r.tmp : Leaks(r.tmp[i]))
           /\ deadUse' = (deadUse \/ \E i \in DOMAIN r.tmp : r.tmp[i].dead)
    /\ UNCHANGED <<choiceVars, iterVars, tKind, panicked>>

\* The end of the lifetime of the Option that zip returned.
DestroyZipped ==
  /\ ~panicked /\ zipped.alive
  /\ LET c == OptionDtor(zipped.t)
     IN  /\ zipped' = Dead
         /\ leaked' = (leaked \/ Leaks(c))
         /\ deadUse' = (deadUse \/ c.dead)
         /\ last' = [NoCall EXCEPT !.op = "~Option", !.self = "zipped",
                       !.pre = zipped.t, !.drops = c.dtor]
  /\ UNCHANGED <<choiceVars, iterVars, tKind, options, panicked>>

NextOption ==
  \/ New \/ With \/ CopyConstruct \/ MoveConstruct
  \/ CopyAssignment \/ MoveAssignment \/ Clone \/ CloneFrom \/ Destroy
  \/ Insert \/ Replace \/ GetOrInsert \/ GetOrInsertDefault \/ GetOrInsertWith
  \/ Take \/ Unwrap \/ Expect \/ UnwrapOr \/ UnwrapOrElse \/ UnwrapOrDefault
  \/ AsValue \/ AsValueMut \/ Deref \/ Arrow
  \/ Map \/ Filter \/ AndThat \/ XorThat \/ Zip \/ DestroyZipped

SpecOption == InitOption /\ [][NextOption]_vars

\* ------------------------------------------------ Option: transforms, compared

\* The functions handed to and_then: from a payload value to an Option.
AndFns ==
  {[v \in Values |-> OptionDefault], [v \in Values |-> with(v)],
   [v \in Values |-> with(MaxVal - v)]}

\* The functions handed to map_or and map_or_else.
OrFns == {[v \in Values |-> v], [v \in Values |-> MaxVal - v]}

\* The arguments a method is called with.
Args(name) ==
  CASE name = "map" -> MapFns
    [] name \in {"map_or", "map_or_else"} -> Values \X OrFns
    [] name = "filter" -> Predicates
    [] name = "and_then" -> AndFns
    [] name \in {"and_that", "or_that", "or_else", "xor_that", "zip"} -> ArgOptions
    [] name = "flatten" -> {<<>>}

\* last.arg of a call: what the function handed over answers on the payload,
\* the default given, or the Option given.
ArgOf(name, c, a) ==
  CASE name \in {"map", "filter", "and_then"} -> Answer(a, c)
    [] name \in {"map_or", "map_or_else"} -> <<a[1]>> \o Answer(a[2], c)
    [] OTHER -> <<a>>

AndThen ==
  \E s \in Slots, d \in Slots, f \in AndFns :
    /\ ~panicked /\ Alive(s) /\ Unused(d)
    /\ Finish("and_then", s, Answer(f, options[s].t), and_then(options[s].t, f), d)

OrThat ==
  \E s \in Slots, d \in Slots, o \in ArgOptions :
    /\ ~panicked /\ Alive(s) /\ Unused(d)
    /\ Finish("or_that", s, <<o>>, or_that(options[s].t, o), d)

OrElse ==
  \E s \in Slots, d \in Slots, o \in ArgOptions :
    /\ ~panicked /\ Alive(s) /\ Unused(d)
    /\ Finish("or_else", s, <<o>>, or_else(options[s].t, o), d)

MapOr ==
  \E s \in Slots, a \in Args("map_or") :
    /\ ~panicked /\ Alive(s)
    /\ Finish("map_or", s, ArgOf("map_or", options[s].t, a),
              map_or(options[s].t, a[1], a[2]), "-")

MapOrElse ==
  \E s \in Slots, a \in Args("map_or_else") :
    /\ ~panicked /\ Alive(s)
    /\ Finish("map_or_else", s, ArgOf("map_or_else", options[s].t, a),
              map_or_else(options[s].t, a[1], a[2]), "-")

\* An Option<Option<T>>: None, or Some of an Option<T>.
NestedOptions == {OptionDefault} \cup {OptionSome(o) : o \in ArgOptions}

\* auto d = sus::move(nested).flatten(); or, when T is Copy, nested.flatten();
\* nested is a local whose lifetime ends after the call (last.arg: as it was
\* left by the call).
Flatten ==
  \E d \in Slots, nested \in NestedOptions, lv \in BOOLEAN :
    /\ ~panicked /\ Unused(d) /\ (lv => tKind = "Copy")
    /\ LET r == IF lv THEN on_lvalue("flatten", nested, <<>>) ELSE flatten(nested)
           inner == IF r.self.state = Some THEN <<OptionDtor(Val(r.self))>> ELSE <<>>
           ends == r.tmp \o inner
       IN  /\ options' = [options EXCEPT ![d] = [alive |-> TRUE, t |-> Kept(r.out[1])]]
           /\ last' = [NoCall EXCEPT !.op = "flatten", !.lvalue = lv,
                         !.pre = nested, !.arg = <<r.self>>, !.out = d,
                         !.drops = Dtors(ends)]
           /\ leaked' = (leaked \/ \E i \in DOMAIN ends : Leaks(ends[i]))
           /\ deadUse' = (deadUse \/ \E i \in DOMAIN ends : ends[i].dead)
    /\ UNCHANGED <<choiceVars, iterVars, tKind, zipped, panicked>>

\* s.method(args...) with s an lvalue and T Copy: the const& overload.
CallOnLvalue ==
  \E s \in Slots, d \in Slots, name \in LvalueMethods \ {"zip", "flatten"} :
    \E a \in Args(name) :
      /\ ~panicked /\ tKind = "Copy" /\ Alive(s) /\ Unused(d)
      /\ FinishAs(name, TRUE, s, ArgOf(name, options[s].t, a),
                  on_lvalue(name, options[s].t, a), d)

\* auto zipped = s.zip(o); with s an lvalue and T Copy.
ZipOnLvalue ==
  \E s \in Slots, o \in ArgOptions :
    /\ ~panicked /\ tKind = "Copy" /\ Alive(s) /\ ~zipped.alive
    /\ LET r == on_lvalue("zip", options[s].t, o)
       IN  /\ options' = [options EXCEPT ![s].t = Kept(r.self)]
           /\ zipped' = [alive |-> TRUE, t |-> Kept(r.out[1])]
           /\ last' = [NoCall EXCEPT !.op = "zip", !.lvalue = TRUE, !.self = s,
                         !.pre = options[s].t, !.arg = <<o>>, !.out = "zipped",
                         !.drops = Dtors(<<r.self>> \o r.tmp)]
           /\ leaked' = (leaked \/ \E i \in DOMAIN r.tmp : Leaks(r.tmp[i]))
           /\ deadUse' = (deadUse \/ \E i \in DOMAIN r.tmp : r.tmp[i].dead)
    /\ UNCHANGED <<choiceVars, iterVars, tKind, panicked>>

\* l == r and l <=> r on two Options in scope.
CompareOptions ==
  \E l \in Slots, r \in Slots :
    /\ ~panicked /\ Alive(l) /\ Alive(r)
    /\ last' = [NoCall EXCEPT !.op = "compare", !.self = l, !.out = r,
                  !.pre = options[l].t, !.arg = <<options[r].t>>,
                  !.equal = <<OptionEq(options[l].t, options[r].t)>>,
                  !.order = <<OptionCmp(options[l].t, options[r].t)>>]
    /\ UNCHANGED <<choiceVars, iterVars, tKind, options, zipped, panicked, leaked, deadUse>>

NextTransform ==
  \/ New \/ With \/ Destroy
  \/ Map \/ MapOr \/ MapOrElse \/ Filter
  \/ AndThat \/ AndThen \/ OrThat \/ OrElse \/ XorThat
  \/ Zip \/ DestroyZipped \/ Flatten
  \/ CallOnLvalue \/ ZipOnLvalue \/ CompareOptions

SpecTransform == InitOption /\ [][NextTransform]_vars

\* ------------------------------------------------ Option: moves, by kind of T

\* T is trivial (an integer), Copy with hand-written operations, or Clone only.
InitMove ==
  /\ tKind \in {"Trivial", "Copy", "CloneOnly"}
  /\ options = [s \in Slots |-> Dead]
  /\ zipped = Dead
  /\ last = NoCall
  /\ leaked = FALSE
  /\ deadUse = FALSE
  /\ alts = <<>>
  /\ choices = [s \in Slots |-> NoChoice]
  /\ lastC = NoChoiceCall
  /\ IdleIter
  /\ panicked = FALSE

NextMove ==
  \/ New \/ With \/ Insert \/ Take
  \/ MoveConstruct \/ MoveAssignment \/ Destroy

SpecMove == InitMove /\ [][NextMove]_vars


\* ---------------------------------------------------------- Choice: actions

\* A Choice as it is kept between operations.
KeptChoice(c) == [c EXCEPT !.storage.log = <<>>]

IdleOption ==
  /\ tKind = "Copy"
  /\ options = [s \in Slots |-> Dead]
  /\ zipped = Dead
  /\ last = NoCall
  /\ leaked = FALSE
  /\ deadUse = FALSE

InitChoice ==
  /\ alts \in AltLists
  /\ choices = [s \in Slots |-> NoChoice]
  /\ lastC = NoChoiceCall
  /\ IdleOption
  /\ IdleIter
  /\ panicked = FALSE

\* The operation `name` left the Choice c in slot d.
FinishChoice(name, d, c, call) ==
  /\ choices' = [choices EXCEPT ![d] = KeptChoice(c)]
  /\ lastC' = [call EXCEPT !.op = name, !.log = c.storage.log,
                           !.returned = ~c.storage.panic]
  /\ panicked' = c.storage.panic
  /\ UNCHANGED <<alts, optVars, iterVars>>

\* The Choice the operations are called on, and the other Choice of an
\* operation on two: the one made from it, or assigned to it.
Subject == "a"
Other == "b"

ChoiceAlive(s) == s \in Slots /\ choices[s].alive

ChoiceUnused(d) == d \in Slots /\ ~choices[d].alive

ChoiceWith ==
  \E d \in {Subject}, i \in DOMAIN alts :
    \E p \in Payloads(alts[i]) :
      /\ ~panicked /\ ChoiceUnused(d)
      /\ FinishChoice("with", d, choice_with(i, p),
           [NoChoiceCall EXCEPT !.out = d, !.index = i, !.arg = p])

ChoiceAs ==
  \E s \in {Subject}, j \in DOMAIN alts :
    /\ ~panicked /\ ChoiceAlive(s)
    /\ LET r == choice_as(choices[s], j)
       IN  FinishChoice("as", s, [choices[s] EXCEPT !.storage = r.self],
             [NoChoiceCall EXCEPT !.self = s, !.pre = choices[s], !.index = j,
                                  !.was = choices[s].index, !.ret = r.ret])

ChoiceSet ==
  \E s \in {Subject}, j \in DOMAIN alts :
    \E p \in Payloads(alts[j]) :
      /\ ~panicked /\ ChoiceAlive(s)
      /\ FinishChoice("set", s, choice_set(choices[s], j, p),
           [NoChoiceCall EXCEPT !.self = s, !.was = choices[s].index,
                                !.index = j, !.arg = p])

ChoiceCopy ==
  \E d \in {Other}, s \in {Subject} :
    /\ ~panicked /\ ChoiceUnused(d) /\ ChoiceAlive(s)
    /\ FinishChoice("copy", d, choice_copy(choices[s]),
         [NoChoiceCall EXCEPT !.self = s, !.pre = choices[s], !.out = d,
                              !.was = choices[s].index])

ChoiceMove ==
  \E d \in {Other}, s \in {Subject} :
    /\ ~panicked /\ ChoiceUnused(d) /\ ChoiceAlive(s)
    /\ FinishChoice("move", d, choice_move(choices[s]),
         [NoChoiceCall EXCEPT !.self = s, !.pre = choices[s], !.out = d,
                              !.was = choices[s].index])

ChoiceClone ==
  \E d \in {Other}, s \in {Subject} :
    /\ ~panicked /\ ChoiceUnused(d) /\ ChoiceAlive(s)
    /\ FinishChoice("clone", d, choice_clone(choices[s]),
         [NoChoiceCall EXCEPT !.self = s, !.pre = choices[s], !.out = d,
                              !.was = choices[s].index])

\* d = s;
ChoiceCopyAssign ==
  \E d \in {Subject}, s \in {Other} :
    /\ ~panicked /\ ChoiceAlive(d) /\ ChoiceAlive(s) /\ d # s
    /\ FinishChoice("copy_assign", d, choice_copy_assign(choices[d], choices[s]),
         [NoChoiceCall EXCEPT !.self = d, !.was = choices[d].index, !.out = s,
                              !.index = choices[s].index,
                              !.arg = TupleVal(choices[s].storage, choices[s].index)])

\* d = sus::move(s);
ChoiceMoveAssign ==
  \E d \in {Subject}, s \in {Other} :
    /\ ~panicked /\ ChoiceAlive(d) /\ ChoiceAlive(s) /\ d # s
    /\ FinishChoice("move_assign", d, choice_move_assign(choices[d], choices[s]),
         [NoChoiceCall EXCEPT !.self = d, !.was = choices[d].index, !.out = s,
                              !.index = choices[s].index,
                              !.arg = TupleVal(choices[s].storage, choices[s].index)])

\* The end of the lifetime of the Choice in slot s.
ChoiceDestroy ==
  \E s \in Slots :
    /\ ~panicked /\ ChoiceAlive(s)
    /\ FinishChoice("~Choice", s, choice_dtor(choices[s]),
         [NoChoiceCall EXCEPT !.self = s, !.was = choices[s].index,
                              !.index = choices[s].index])

Comparisons == {"eq", "strong_ord", "weak_ord", "partial_ord"}

\* a == b and a <=> b on two Choices of the same active alternative: the
\* comparison of the storages at that index; neither Choice is changed.
ChoiceCompare ==
  \E kind \in Comparisons :
    /\ ~panicked /\ ChoiceAlive(Subject) /\ ChoiceAlive(Other)
    /\ choices[Subject].index = choices[Other].index
    /\ LET l == choices[Subject].storage
           r == choices[Other].storage
           i == choices[Subject].index
       IN  lastC' = [NoChoiceCall EXCEPT
             !.op = kind, !.self = Subject, !.out = Other, !.was = i,
             !.index = i,
             !.equal = IF kind = "eq" THEN eq(l, 0, i, r) ELSE <<>>,
             !.order = CASE kind = "eq" -> <<>>
                         [] kind = "strong_ord" -> strong_ord(l, 0, i, r)
                         [] kind = "weak_ord" -> weak_ord(l, 0, i, r)
                         [] kind = "partial_ord" -> partial_ord(l, 0, i, r)]
    /\ UNCHANGED <<alts, choices, optVars, iterVars, panicked>>

NextChoice ==
  \/ ChoiceWith \/ ChoiceAs \/ ChoiceSet
  \/ ChoiceCopy \/ ChoiceMove \/ ChoiceClone
  \/ ChoiceCopyAssign \/ ChoiceMoveAssign \/ ChoiceDestroy
  \/ ChoiceCompare

SpecChoice == InitChoice /\ [][NextChoice]_vars

\* ------------------------------------------------ Iterators: Options collected

\* An iterator has at most MaxLen items.
MaxLen == 3

\* The items of an iterator over Option<U>.
OptionItems == UNION {[1..n -> ArgOptions] : n \in 0..MaxLen}

Collectors == {"from_iter", "from_product", "from_sum"}

\* next() of the iterator handed over, pos of its items being taken already:
\* the Option<Option<U>> it returns and the items taken afterwards.
InnerNext(pos) ==
  IF pos < Len(items)
  THEN [item |-> OptionSome(items[pos + 1]), pos |-> pos + 1]
  ELSE [item |-> OptionDefault, pos |-> pos]

\* Mutant: UntilNoneIter::next() never records that it met a None.
until_none_next_unflagged(it) ==
  LET n == InnerNext(it.pos)
  IN  IF it.found_none \/ is_none(n.item)
      THEN [it |-> [it EXCEPT !.pos = n.pos], out |-> OptionDefault]
      ELSE [it |-> [it EXCEPT !.pos = n.pos], out |-> flatten(n.item).out[1]]

\* UntilNoneIter::next() of from_iter: the iterator's fields afterwards and
\* the Option<U> returned.
until_none_next(it) ==
  LET n == InnerNext(it.pos)
  IN  IF it.found_none \/ is_none(n.item)
      THEN [it |-> [it EXCEPT !.pos = n.pos], out |-> OptionDefault]
      ELSE [it |-> [it EXCEPT !.pos = n.pos,
                              !.found_none = is_none(Val(n.item))],
            out |-> flatten(n.item).out[1]]

\* Mutant: IterUntilNone::next() never records that it met a None.
iter_until_none_next_unflagged(it) ==
  LET n == InnerNext(it.pos)
  IN  IF is_some(n.item)
      THEN [it |-> [it EXCEPT !.pos = n.pos],
            out |-> unwrap_unchecked(n.item).val[1]]
      ELSE [it |-> [it EXCEPT !.pos = n.pos], out |-> OptionDefault]

\* IterUntilNone::next() of from_product_impl and from_sum_impl.
iter_until_none_next(it) ==
  LET n == InnerNext(it.pos)
      out == IF is_some(n.item) THEN unwrap_unchecked(n.item).val[1]
             ELSE OptionDefault
  IN  [it |-> [it EXCEPT !.pos = n.pos,
                         !.found_none = @ \/ (is_some(n.item) /\ is_none(out))],
       out |-> out]

\* product() and sum() of an iterator over T start from one and from zero.
Unit(kind) == IF kind = "from_product" THEN 1 ELSE 0

Fold(kind, acc, v) == IF kind = "from_product" THEN acc * v ELSE acc + v

InitCollect ==
  /\ items \in OptionItems
  /\ setup \in {[kind |-> k] : k \in Collectors}
  /\ iter = [phase |-> "running", pos |-> 0, found_none |-> FALSE,
             collected |-> <<>>, acc |-> Unit(setup.kind),
             result |-> OptionDefault, total |-> OptionDefault]
  /\ yields = <<>>
  /\ IdleOption
  /\ alts = <<>>
  /\ choices = [s \in Slots |-> NoChoice]
  /\ lastC = NoChoiceCall
  /\ panicked = FALSE

\* for (T t : iter) v.push_back(::sus::move(t)); one turn of the loop of the
\* container's from_iter over the UntilNoneIter.
CollectNext ==
  /\ setup.kind = "from_iter" /\ iter.phase = "running"
  /\ LET r == until_none_next(iter)
     IN  /\ iter' = IF is_none(r.out) THEN [r.it EXCEPT !.phase = "ended"]
                    ELSE [r.it EXCEPT !.collected = Append(@, Val(r.out))]
         /\ yields' = Append(yields, r.out)
  /\ UNCHANGED <<optVars, choiceVars, items, setup, panicked>>

\* if (found_none) return Option<T>(); else return Option<T>::with(collected);
FromIterReturn ==
  /\ setup.kind = "from_iter" /\ iter.phase = "ended"
  /\ iter' = [iter EXCEPT !.phase = "returned",
                          !.result = IF iter.found_none THEN OptionDefault
                                     ELSE with(iter.collected)]
  /\ UNCHANGED <<optVars, choiceVars, items, setup, yields, panicked>>

\* One turn of the loop of product() or sum() over the IterUntilNone.
FoldNext ==
  /\ setup.kind \in {"from_product", "from_sum"} /\ iter.phase = "running"
  /\ LET r == iter_until_none_next(iter)
     IN  /\ iter' = IF is_none(r.out) THEN [r.it EXCEPT !.phase = "ended"]
                    ELSE [r.it EXCEPT !.acc = Fold(setup.kind, @, Val(r.out))]
         /\ yields' = Append(yields, r.out)
  /\ UNCHANGED <<optVars, choiceVars, items, setup, panicked>>

\* auto out = Option<T>::with(...); if (found_none) out = Option<T>();
FoldReturn ==
  /\ setup.kind \in {"from_product", "from_sum"} /\ iter.phase = "ended"
  /\ iter' = [iter EXCEPT !.phase = "returned",
                          !.total = IF iter.found_none
                                    THEN MoveAssign(with(iter.acc), OptionDefault).self
                                    ELSE with(iter.acc)]
  /\ UNCHANGED <<optVars, choiceVars, items, setup, yields, panicked>>

NextCollect == CollectNext \/ FromIterReturn \/ FoldNext \/ FoldReturn

SpecCollect == InitCollect /\ [][NextCollect]_vars

\* ------------------------------------------------- Slices iterated in chunks

\* A slice has at most MaxSlice elements, a chunk at most MaxChunk.
MaxSlice == 6

MaxChunk == 3

\* next() and next_back() are called at most MaxCalls times on an iterator.
MaxCalls == MaxSlice + 2

Min(a, b) == IF a < b THEN a ELSE b

\* A Slice<T> or SliceMut<T>: a view of len elements that starts ptr elements
\* into the slice the iterator was made from.
Slice(ptr, len) == [ptr |-> ptr, len |-> len]

NoSlice == Slice(0, 0)

\* split_at_unchecked(mid) and split_at_mut_unchecked(mid): the two parts.
split_at_unchecked(s, mid) ==
  [fst |-> Slice(s.ptr, mid), snd |-> Slice(s.ptr + mid, s.len - mid)]

\* Mutant: Chunks::next() hands out all that is left as one chunk.
chunks_next_whole(it) ==
  IF it.v_.len = 0 THEN [it |-> it, out |-> <<>>]
  ELSE [it |-> [it EXCEPT !.v_ = split_at_unchecked(it.v_, it.v_.len).snd],
        out |-> <<split_at_unchecked(it.v_, it.v_.len).fst>>]

\* Chunks::next() and ChunksMut::next().
chunks_next(it) ==
  IF it.v_.len = 0 THEN [it |-> it, out |-> <<>>]
  ELSE LET chunksz == Min(it.v_.len, it.chunk_size_)
           parts == split_at_unchecked(it.v_, chunksz)
       IN  [it |-> [it EXCEPT !.v_ = parts.snd], out |-> <<parts.fst>>]

\* Chunks::next_back() and ChunksMut::next_back().
chunks_next_back(it) ==
  IF it.v_.len = 0 THEN [it |-> it, out |-> <<>>]
  ELSE LET len == it.v_.len
           remainder == len % it.chunk_size_
           chunksz == IF remainder # 0 THEN remainder ELSE it.chunk_size_
           parts == split_at_unchecked(it.v_, len - chunksz)
       IN  [it |-> [it EXCEPT !.v_ = parts.fst], out |-> <<parts.snd>>]

\* ChunksExact::next() and ChunksExactMut::next().
chunks_exact_next(it) ==
  IF it.v_.len < it.chunk_size_ THEN [it |-> it, out |-> <<>>]
  ELSE LET parts == split_at_unchecked(it.v_, it.chunk_size_)
       IN  [it |-> [it EXCEPT !.v_ = parts.snd], out |-> <<parts.fst>>]

\* ChunksExact::next_back() and ChunksExactMut::next_back().
chunks_exact_next_back(it) ==
  IF it.v_.len < it.chunk_size_ THEN [it |-> it, out |-> <<>>]
  ELSE LET parts == split_at_unchecked(it.v_, it.v_.len - it.chunk_size_)
       IN  [it |-> [it EXCEPT !.v_ = parts.fst], out |-> <<parts.snd>>]

\* Mutant: RChunks::next() takes its chunk from the front of what is left.
rchunks_next_front(it) ==
  IF it.v_.len = 0 THEN [it |-> it, out |-> <<>>]
  ELSE LET chunksz == Min(it.v_.len, it.chunk_size_)
           parts == split_at_unchecked(it.v_, chunksz)
       IN  [it |-> [it EXCEPT !.v_ = parts.snd], out |-> <<parts.fst>>]

\* RChunks::next() and RChunksMut::next().
rchunks_next(it) ==
  IF it.v_.len = 0 THEN [it |-> it, out |-> <<>>]
  ELSE LET len == it.v_.len
           chunksz == Min(len, it.chunk_size_)
           mid == len - chunksz
           parts == split_at_unchecked(it.v_, mid)
       IN  [it |-> [it EXCEPT !.v_ = parts.fst], out |-> <<parts.snd>>]

\* RChunks::next_back() and RChunksMut::next_back().
rchunks_next_back(it) ==
  IF it.v_.len = 0 THEN [it |-> it, out |-> <<>>]
  ELSE LET remainder == it.v_.len % it.chunk_size_
           chunksz == IF remainder # 0 THEN remainder ELSE it.chunk_size_
           parts == split_at_unchecked(it.v_, chunksz)
       IN  [it |-> [it EXCEPT !.v_ = parts.snd], out |-> <<parts.fst>>]

\* RChunksExact::next() and RChunksExactMut::next().
rchunks_exact_next(it) ==
  IF it.v_.len < it.chunk_size_ THEN [it |-> it, out |-> <<>>]
  ELSE LET mid == it.v_.len - it.chunk_size_
           parts == split_at_unchecked(it.v_, mid)
       IN  [it |-> [it EXCEPT !.v_ = parts.fst], out |-> <<parts.snd>>]

\* RChunksExact::next_back() and RChunksExactMut::next_back().
rchunks_exact_next_back(it) ==
  IF it.v_.len < it.chunk_size_ THEN [it |-> it, out |-> <<>>]
  ELSE LET parts == split_at_unchecked(it.v_, it.chunk_size_)
       IN  [it |-> [it EXCEPT !.v_ = parts.snd], out |-> <<parts.fst>>]

\* The constructor of Chunks, ChunksMut, RChunks and RChunksMut, its check of
\* chunk_size > 0 passed.
chunks_with(values, chunk_size) ==
  [v_ |-> values, rem_ |-> NoSlice, chunk_size_ |-> chunk_size,
   remainder |-> <<>>]

\* Mutant: ChunksExact keeps the whole slice and no remainder.
chunks_exact_with_all(values, chunk_size) ==
  [v_ |-> values, rem_ |-> Slice(values.ptr + values.len, 0),
   chunk_size_ |-> chunk_size, remainder |-> <<>>]

\* ChunksExact::with_slice() and ChunksExactMut::with_slice().
chunks_exact_with_slice(values, chunk_size) ==
  LET rem == values.len % chunk_size
      fst_len == values.len - rem
      parts == split_at_unchecked(values, fst_len)
  IN  [v_ |-> parts.fst, rem_ |-> parts.snd, chunk_size_ |-> chunk_size,
       remainder |-> <<>>]

\* RChunksExact::with_slice() and RChunksExactMut::with_slice().
rchunks_exact_with_slice(values, chunk_size) ==
  LET rem == values.len % chunk_size
      parts == split_at_unchecked(values, rem)
  IN  [v_ |-> parts.snd, rem_ |-> parts.fst, chunk_size_ |-> chunk_size,
       remainder |-> <<>>]

ForwardKinds == {"Chunks", "ChunksMut"}

ReverseKinds == {"RChunks", "RChunksMut"}

ForwardExactKinds == {"ChunksExact", "ChunksExactMut"}

ReverseExactKinds == {"RChunksExact", "RChunksExactMut"}

ExactKinds == ForwardExactKinds \cup ReverseExactKinds

ChunkKinds == ForwardKinds \cup ReverseKinds \cup ExactKinds

\* The iterator of this kind over values.
ChunksOf(kind, values, chunk_size) ==
  IF kind \in ForwardExactKinds THEN chunks_exact_with_slice(values, chunk_size)
  ELSE IF kind \in ReverseExactKinds
  THEN rchunks_exact_with_slice(values, chunk_size)
  ELSE chunks_with(values, chunk_size)

NextOf(kind, it) ==
  IF kind \in ForwardKinds THEN chunks_next(it)
  ELSE IF kind \in ReverseKinds THEN rchunks_next(it)
  ELSE IF kind \in ForwardExactKinds THEN chunks_exact_next(it)
  ELSE rchunks_exact_next(it)

NextBackOf(kind, it) ==
  IF kind \in ForwardKinds THEN chunks_next_back(it)
  ELSE IF kind \in ReverseKinds THEN rchunks_next_back(it)
  ELSE IF kind \in ForwardExactKinds THEN chunks_exact_next_back(it)
  ELSE rchunks_exact_next_back(it)

\* slice.chunks(chunk_size), chunks_exact(chunk_size), rchunks(chunk_size),
\* ... on a slice of n elements, the elements being numbered 1..n.
InitChunks ==
  /\ \E n \in 0..MaxSlice : items = [i \in 1..n |-> i]
  /\ setup \in {[kind |-> k, chunk_size |-> c] :
                  k \in ChunkKinds, c \in 1..MaxChunk}
  /\ iter = ChunksOf(setup.kind, Slice(0, Len(items)), setup.chunk_size)
  /\ yields = <<>>
  /\ IdleOption
  /\ alts = <<>>
  /\ choices = [s \in Slots |-> NoChoice]
  /\ lastC = NoChoiceCall
  /\ panicked = FALSE

ChunksNext ==
  /\ Len(yields) < MaxCalls
  /\ iter' = NextOf(setup.kind, iter).it
  /\ yields' = Append(yields, [op |-> "next", ret |-> NextOf(setup.kind, iter).out])
  /\ UNCHANGED <<optVars, choiceVars, items, setup, panicked>>

ChunksNextBack ==
  /\ Len(yields) < MaxCalls
  /\ iter' = NextBackOf(setup.kind, iter).it
  /\ yields' = Append(yields, [op |-> "next_back",
                               ret |-> NextBackOf(setup.kind, iter).out])
  /\ UNCHANGED <<optVars, choiceVars, items, setup, panicked>>

\* remainder() const&: return rem_.
ChunksRemainder ==
  /\ setup.kind \in ExactKinds
  /\ iter' = [iter EXCEPT !.remainder = <<iter.rem_>>]
  /\ UNCHANGED <<optVars, choiceVars, items, setup, yields, panicked>>

NextChunks == ChunksNext \/ ChunksNextBack \/ ChunksRemainder

SpecChunks == InitChunks /\ [][NextChunks]_vars

\* ------------------------------------- Iterator adaptors with a predicate

\* The iterator adapted has at most MaxItems items.
MaxItems == 3

Adaptors == {"TakeWhile", "SkipWhile", "Filter"}

\* next() of the iterator adapted, which runs over items[lo+1..hi]: the
\* position of the item it returns, if any.
inner_next(it) ==
  IF it.lo < it.hi
  THEN [it |-> [it EXCEPT !.lo = @ + 1], out |-> <<it.lo + 1>>]
  ELSE [it |-> it, out |-> <<>>]

\* next_back() of the iterator adapted.
inner_next_back(it) ==
  IF it.lo < it.hi
  THEN [it |-> [it EXCEPT !.hi = @ - 1], out |-> <<it.hi>>]
  ELSE [it |-> it, out |-> <<>>]

\* call_mut(pred_, item): the iterator afterwards, the call being recorded.
call_mut(it, at) ==
  [it EXCEPT !.log = Append(@, [at |-> at, ret |-> setup.pred[items[at]]])]

\* What one pass through the body of next() comes to: the call returns out,
\* or the loop goes round again.
Return(it, out) == [it |-> it, out |-> out, done |-> TRUE]

Again(it) == [it |-> it, out |-> <<>>, done |-> FALSE]

\* Mutant: TakeWhile::next() goes on after the predicate has returned false.
take_while_next_on(it) ==
  IF ~it.pred_ THEN Return(it, <<>>)
  ELSE LET n == inner_next(it)
       IN  IF n.out = <<>> THEN Return(n.it, <<>>)
           ELSE IF ~setup.pred[items[n.out[1]]]
           THEN Return(call_mut(n.it, n.out[1]), <<>>)
           ELSE Return(call_mut(n.it, n.out[1]), n.out)

\* TakeWhile::next().
take_while_next(it) ==
  IF ~it.pred_ THEN Return(it, <<>>)
  ELSE LET n == inner_next(it)
       IN  IF n.out = <<>> THEN Return(n.it, <<>>)
           ELSE IF ~setup.pred[items[n.out[1]]]
           THEN Return([call_mut(n.it, n.out[1]) EXCEPT !.pred_ = FALSE], <<>>)
           ELSE Return(call_mut(n.it, n.out[1]), n.out)

\* Mutant: SkipWhile::next() keeps its predicate after it has returned false.
skip_while_next_keeps(it) ==
  LET n == inner_next(it)
  IN  IF n.out = <<>> \/ ~it.pred_ THEN Return(n.it, n.out)
      ELSE IF ~setup.pred[items[n.out[1]]]
      THEN Return(call_mut(n.it, n.out[1]), n.out)
      ELSE Again(call_mut(n.it, n.out[1]))

\* SkipWhile::next(): one turn of its loop.
skip_while_next(it) ==
  LET n == inner_next(it)
  IN  IF n.out = <<>> \/ ~it.pred_ THEN Return(n.it, n.out)
      ELSE IF ~setup.pred[items[n.out[1]]]
      THEN Return([call_mut(n.it, n.out[1]) EXCEPT !.pred_ = FALSE], n.out)
      ELSE Again(call_mut(n.it, n.out[1]))

\* Mutant: Filter returns the first item it gets, whatever the predicate says.
filter_first(it, n) ==
  IF n.out = <<>> THEN Return(n.it, n.out)
  ELSE Return(call_mut(n.it, n.out[1]), n.out)

\* Filter::next() and Filter::next_back(): one turn of the loop, n being what
\* next_iter_.next(), respectively next_iter_.next_back(), gave.
filter_turn(it, n) ==
  IF n.out = <<>> THEN Return(n.it, n.out)
  ELSE IF setup.pred[items[n.out[1]]]
  THEN Return(call_mut(n.it, n.out[1]), n.out)
  ELSE Again(call_mut(n.it, n.out[1]))

\* The methods of each adaptor.
Methods(kind) == IF kind = "Filter" THEN {"next", "next_back"} ELSE {"next"}

\* One pass through the body of the method that is running.
Turn(kind, it) ==
  IF kind = "TakeWhile" THEN take_while_next(it)
  ELSE IF kind = "SkipWhile" THEN skip_while_next(it)
  ELSE IF it.call = "next" THEN filter_turn(it, inner_next(it))
  ELSE filter_turn(it, inner_next_back(it))

\* iter.take_while(pred), iter.skip_while(pred), iter.filter(pred): the
\* adaptor holds the predicate and the iterator, of which nothing is taken yet.
InitAdaptor ==
  /\ items \in UNION {[1..n -> Values] : n \in 0..MaxItems}
  /\ setup \in {[kind |-> k, pred |-> p] : k \in Adaptors, p \in Predicates}
  /\ iter = [call |-> "idle", pred_ |-> TRUE, lo |-> 0, hi |-> Len(items),
             log |-> <<>>]
  /\ yields = <<>>
  /\ IdleOption
  /\ alts = <<>>
  /\ choices = [s \in Slots |-> NoChoice]
  /\ lastC = NoChoiceCall
  /\ panicked = FALSE

\* The caller enters next() or next_back(); no call is made once the
\* iterator has returned None twice.
AdaptorCall ==
  /\ iter.call = "idle"
  /\ Cardinality({k \in DOMAIN yields : yields[k].ret = <<>>}) < 2
  /\ \E op \in Methods(setup.kind) : iter' = [iter EXCEPT !.call = op]
  /\ UNCHANGED <<optVars, choiceVars, items, setup, yields, panicked>>

\* The running method goes once through its body, and returns or loops.
AdaptorTurn ==
  /\ iter.call # "idle"
  /\ LET r == Turn(setup.kind, iter)
     IN  IF r.done
         THEN /\ iter' = [r.it EXCEPT !.call = "idle"]
              /\ yields' = Append(yields, [op |-> iter.call, ret |-> r.out])
         ELSE /\ iter' = r.it
              /\ UNCHANGED yields
  /\ UNCHANGED <<optVars, choiceVars, items, setup, panicked>>

NextAdaptor == AdaptorCall \/ AdaptorTurn

SpecAdaptor == InitAdaptor /\ [][NextAdaptor]_vars

\* A method that is running goes on running until it returns.
SpecAdaptorRuns == InitAdaptor /\ [][NextAdaptor]_vars /\ WF_vars(AdaptorTurn)

\* ----------------------------------------------------------- Option: claims

\* No payload was leaked and none was used while not live, so far.
NoPayloadFault ==
  /\ ~leaked /\ ~deadUse
  /\ \A s \in Slots : ~options[s].t.leak /\ ~options[s].t.dead
  /\ ~zipped.t.leak /\ ~zipped.t.dead

\* C1: over any sequence of Option operations followed by the destruction of
\* the Options, every constructed payload is destroyed exactly once: no
\* payload's lifetime ends without its destructor (no leak), no destructor
\* runs on a payload that is not live (no double destruction), and the
\* destructor of an Option destroys one payload if it is Some and none if it
\* is None.
C1_PayloadDestroyedOnce ==
  /\ NoPayloadFault
  /\ \A s \in Slots : ~options[s].alive => ~Live(options[s].t)
  /\ last.op = "~Option" =>
       last.drops = (IF last.pre.state = Some THEN 1 ELSE 0)

C1_Witness ==
  /\ last.op = "~Option" /\ last.pre.state = Some /\ last.drops = 1
  /\ \A s \in Slots : ~options[s].alive
  /\ ~zipped.alive

Assignments == {"copy_assign", "move_assign", "clone_from"}

Inserting ==
  {"insert", "replace", "get_or_insert", "get_or_insert_default",
   "get_or_insert_with"}

Consuming ==
  {"take", "unwrap", "expect", "unwrap_or", "unwrap_or_else",
   "unwrap_or_default", "map", "filter", "and_that", "xor_that", "zip"}

\* The last call may have taken the Option in slot x from None to Some.
MayGain(x) ==
  \/ last.op \in Inserting /\ last.self = x
  \/ last.op \in Assignments /\ last.self = x /\ is_some(last.arg[1])

\* The last call may have taken the Option in slot x from Some to None.
MayLose(x) ==
  \/ last.op \in Consuming /\ last.self = x
  \/ last.op \in Assignments /\ last.self = x /\ is_none(last.arg[1])
  \/ last.op = "move" /\ last.self = x
  \/ last.op = "move_assign" /\ last.out = x

C2_Discriminant ==
  /\ \A s \in Slots : options[s].alive =>
        /\ is_some(options[s].t) <=> Live(options[s].t)
        /\ is_none(options[s].t) <=> ~is_some(options[s].t)
  /\ zipped.alive => (is_some(zipped.t) <=> Live(zipped.t))
  /\ last.op = "Option" => is_none(options[last.out].t)
  /\ last.op \in {"replace", "insert"} /\ is_some(last.pre) =>
        is_some(options[last.self].t)
  /\ last.op \in Assignments /\ is_some(last.pre) /\ is_some(last.arg[1]) =>
        is_some(options[last.self].t)

C2_Transitions ==
  \A x \in Slots : options[x].alive /\ options'[x].alive =>
     /\ is_none(options[x].t) /\ is_some(options'[x].t) => MayGain(x)'
     /\ is_some(options[x].t) /\ is_none(options'[x].t) => MayLose(x)'

\* C2: in every reachable state is_some() holds exactly when a payload is
\* live and is_none() is its negation; a default-constructed Option is None;
\* an Option goes from None to Some only through insert, replace,
\* get_or_insert* or an assignment / clone_from from a Some source (with()
\* constructs it Some), from Some to None only through take, an unwrap-family
\* or consuming transform call, an assignment from a None source or being
\* moved from; replace, insert and assignment from a Some source leave a Some
\* Option Some.
C2_StateMachine == []C2_Discriminant /\ [][C2_Transitions]_vars

C2_Witness ==
  /\ last.op = "move_assign" /\ is_some(last.pre) /\ is_none(last.arg[1])
  /\ is_none(options[last.self].t)

\* C6: for every v, take() or unwrap() on Option::with(v) yields v and leaves
\* the Option None.
C6_RoundTrip ==
  \A v \in Values :
    /\ last.op = "unwrap" /\ last.pre = with(v) =>
         /\ last.ret = <<v>>
         /\ is_none(options[last.self].t) /\ ~Live(options[last.self].t)
    /\ last.op = "take" /\ last.pre = with(v) =>
         /\ options[last.out].alive /\ options[last.out].t = with(v)
         /\ is_none(options[last.self].t) /\ ~Live(options[last.self].t)

C6_Witness ==
  /\ last.op = "unwrap" /\ last.pre = with(MaxVal) /\ last.ret = <<MaxVal>>
  /\ is_none(options[last.self].t)

\* C7: a default-constructed Option is None; take() on a None Option returns
\* None and leaves the Option as it was, None, at every repetition.
C7_IdempotentEmptiness ==
  /\ last.op = "Option" =>
       options[last.out].alive /\ is_none(options[last.out].t)
  /\ last.op = "take" /\ is_none(last.pre) =>
       /\ options[last.self].t = last.pre
       /\ options[last.out].alive /\ is_none(options[last.out].t)
       /\ ~Live(options[last.out].t)

C7_Witness ==
  /\ last.op = "take" /\ is_none(last.pre)
  /\ is_none(options[last.self].t) /\ is_none(options[last.out].t)

UnwrapFamily ==
  {"unwrap", "expect", "unwrap_or", "unwrap_or_else", "unwrap_or_default"}

\* C8: unwrap() and expect() on None terminate the process and return
\* nothing; unwrap_or, unwrap_or_else and unwrap_or_default never terminate
\* it and on None return d, f() (f called exactly once) and T(); on Some(v)
\* every unwrap-family call returns v without calling f.
C8_UnwrapFamily ==
  /\ last.op \in {"unwrap", "expect"} /\ is_none(last.pre) =>
       panicked /\ ~last.returned /\ last.ret = <<>>
  /\ last.op \in {"unwrap_or", "unwrap_or_else", "unwrap_or_default"} =>
       ~panicked /\ last.returned
  /\ last.op = "unwrap_or" /\ is_none(last.pre) => last.ret = last.arg
  /\ last.op = "unwrap_or_else" /\ is_none(last.pre) =>
       last.ret = last.arg /\ last.calls = 1
  /\ last.op = "unwrap_or_default" /\ is_none(last.pre) =>
       last.ret = <<DefaultT>>
  /\ last.op \in UnwrapFamily /\ is_some(last.pre) =>
       ~panicked /\ last.returned /\ last.ret = last.pre.val /\ last.calls = 0
  /\ panicked => ~last.returned

C8_Witness ==
  /\ last.op = "expect" /\ is_none(last.pre) /\ panicked

References == {"as_value", "as_value_mut", "operator*", "operator->"}

\* C9: as_value(), as_value_mut(), operator* and operator-> terminate the
\* process on None; on Some they refer to the live payload and leave the
\* Option as it was.
C9_References ==
  /\ last.op \in References /\ is_none(last.pre) =>
       panicked /\ ~last.returned /\ last.ret = <<>>
  /\ last.op \in References /\ is_some(last.pre) =>
       /\ ~panicked /\ last.returned
       /\ Live(last.pre) /\ last.ret = last.pre.val
       /\ options[last.self].t = last.pre

C9_Witness ==
  /\ last.op = "operator*" /\ is_none(last.pre) /\ panicked

\* C10: Option::with(v).filter(p): when p answers false the result is None,
\* the source is None and v's payload was destroyed exactly once, with no
\* leak and no double destruction; when p answers true the result is Some(v)
\* and filter destroyed no payload.
C10_FilterRejection ==
  \A v \in Values :
    last.op = "filter" /\ last.pre = with(v) =>
      /\ is_none(options[last.self].t) /\ ~Live(options[last.self].t)
      /\ last.calls = 1
      /\ NoPayloadFault
      /\ options[last.out].alive
      /\ last.arg = <<FALSE>> =>
           options[last.out].t = OptionDefault /\ last.drops = 1
      /\ last.arg = <<TRUE>> =>
           options[last.out].t = with(v) /\ last.drops = 0

C10_Witness ==
  /\ last.op = "filter" /\ last.pre = with(MaxVal) /\ last.arg = <<FALSE>>
  /\ is_none(options[last.self].t) /\ last.drops = 1

\* The Option a call returned, where the call bound it.
Returned == IF last.out = "zipped" THEN zipped.t ELSE options[last.out].t

\* C11: on an Option that is None, map, and_then, filter, and_that, zip and
\* flatten return None and never invoke the function or predicate given; on
\* Some(v), map returns Some(f(v)) and and_then returns f(v), f being invoked
\* exactly once, with v.
C11_NonePropagates ==
  /\ (/\ last.op \in {"map", "and_then", "filter", "and_that", "zip", "flatten"}
      /\ last.pre.state = None) =>
        /\ last.out # "-"
        /\ Returned = OptionDefault
        /\ last.calls = 0
  /\ (last.op = "map" /\ last.pre.state = Some) =>
        /\ last.out # "-"
        /\ Returned = OptionSome(last.arg[1])
        /\ last.calls = 1
  /\ (last.op = "and_then" /\ last.pre.state = Some) =>
        /\ last.out # "-"
        /\ Returned = last.arg[1]
        /\ last.calls = 1

C11_Witness ==
  /\ last.op = "and_then" /\ last.pre = with(0) /\ last.arg = <<with(MaxVal)>>
  /\ Returned = with(MaxVal) /\ last.calls = 1

\* The source of the last move as it was before, and the slots of the source
\* and of the destination.
MovedFrom == IF last.op = "move" THEN last.pre ELSE last.arg[1]

MoveSource == IF last.op = "move" THEN last.self ELSE last.out

MoveDest == IF last.op = "move" THEN last.out ELSE last.self

\* C12, as stated: moving an Option that is Some (move construction or move
\* assignment) transfers ownership of the payload to the destination and
\* leaves the source Option in the None state.
C12_MoveLeavesNone ==
  (last.op \in {"move", "move_assign"} /\ MovedFrom.state = Some) =>
    /\ options[MoveDest].t = with(Val(MovedFrom))
    /\ last.drops = 0
    /\ options[MoveSource].t = OptionDefault

\* C12, amended: when T is not trivially movable, moving an Option that is
\* Some transfers the payload to the destination, destroys nothing and leaves
\* the source None; when T is trivially movable the defaulted move copies the
\* Option and leaves the source Some, holding the same value.
C12_MoveByKind ==
  (last.op \in {"move", "move_assign"} /\ MovedFrom.state = Some) =>
    /\ options[MoveDest].t = with(Val(MovedFrom))
    /\ last.drops = 0
    /\ tKind # "Trivial" => options[MoveSource].t = OptionDefault
    /\ tKind = "Trivial" => options[MoveSource].t = MovedFrom

C12_Witness ==
  /\ last.op = "move_assign" /\ tKind = "CloneOnly"
  /\ last.pre = with(0) /\ MovedFrom = with(MaxVal)
  /\ options[MoveDest].t = with(MaxVal) /\ is_none(options[MoveSource].t)

\* C13: for a T that is Clone and not Copy, a.clone() has the state of a and a
\* payload equal to a's, and a is unchanged by the call; what is done
\* afterwards to the clone alone (mutating it, taking from it, destroying it)
\* changes neither the state nor the payload of a.
C13_CloneIndependence ==
  /\ [](last.op = "clone" =>
          /\ options[last.out].t.state = last.pre.state
          /\ options[last.out].t.val = last.pre.val
          /\ options[last.self].t = last.pre)
  /\ [][(/\ last.op = "clone"
         /\ last'.self = last.out
         /\ last'.out # last.self) =>
           options'[last.self] = options[last.self]]_vars

C13_Witness ==
  /\ last.op = "clone" /\ last.pre = with(MaxVal)
  /\ options[last.out].t = with(MaxVal) /\ options[last.self].t = with(MaxVal)

\* C14: d.clone_from(s) leaves d equal to s whichever of the two is Some or
\* None; when both are Some the clone is made into the payload d already has,
\* which is neither destroyed nor constructed anew; and clone_from of an
\* Option from itself changes nothing.
C14_CloneFrom ==
  last.op = "clone_from" =>
    /\ options[last.self].t = last.arg[1]
    /\ NoPayloadFault
    /\ (last.pre.state = Some /\ last.arg[1].state = Some) => last.drops = 0
    /\ last.drops = (IF last.pre.state = Some /\ last.arg[1].state = None
                     THEN 1 ELSE 0)
    /\ last.arg[1] = last.pre => options[last.self].t = last.pre

C14_Witness ==
  /\ last.op = "clone_from" /\ last.pre = with(0) /\ last.arg = <<with(MaxVal)>>
  /\ options[last.self].t = with(MaxVal) /\ last.drops = 0

\* C15: None orders before every Some(x) and Some(x) after None, None and
\* None are equivalent, and Some(x) against Some(y) orders as x against y;
\* operator== is true exactly for None == None and for Some(x) == Some(y)
\* with x == y.
C15_Comparison ==
  last.op = "compare" =>
    LET l == last.pre
        r == last.arg[1]
        equal == last.equal[1]
        order == last.order[1]
    IN  /\ (l.state = None /\ r.state = Some) => order = "less"
        /\ (l.state = Some /\ r.state = None) => order = "greater"
        /\ (l.state = None /\ r.state = None) => order = "equivalent"
        /\ (l.state = Some /\ r.state = Some) =>
             /\ order = "less" <=> l.val[1] < r.val[1]
             /\ order = "greater" <=> l.val[1] > r.val[1]
             /\ order = "equivalent" <=> l.val[1] = r.val[1]
        /\ equal <=> \/ l.state = None /\ r.state = None
                     \/ l.state = Some /\ r.state = Some /\ l.val = r.val
        /\ options[last.self].t = l /\ options[last.out].t = r

C15_Witness ==
  /\ last.op = "compare" /\ last.pre = with(0) /\ last.arg = <<with(MaxVal)>>
  /\ last.equal = <<FALSE>> /\ last.order = <<"less">>

\* The Options a const& overload may be called on: those in scope, and for
\* flatten the Option<Option<T>> values.
Receivers(name) ==
  IF name = "flatten" THEN NestedOptions
  ELSE {options[s].t : s \in {x \in Slots : options[x].alive}}

\* C18: when T is Copy, map, map_or, map_or_else, filter, and_that, and_then,
\* or_that, or_else, xor_that, zip and flatten called on an lvalue Option
\* perform the method on a copy: the call returns what the rvalue form
\* returns on an equal Option, after as many invocations of the function
\* given, and the Option it was called on is unchanged.
C18_LvalueActsOnCopy ==
  /\ tKind = "Copy" =>
       \A name \in LvalueMethods : \A c \in Receivers(name) :
         \A a \in Args(name) :
           LET onCopy == on_lvalue(name, c, a)
               moved == Call(name, c, a)
           IN  /\ onCopy.out = moved.out
               /\ onCopy.val = moved.val
               /\ onCopy.calls = moved.calls
               /\ onCopy.self = c
               /\ \A i \in DOMAIN onCopy.tmp :
                    ~Leaks(onCopy.tmp[i]) /\ ~onCopy.tmp[i].dead
  /\ last.lvalue =>
       /\ tKind = "Copy" /\ NoPayloadFault
       /\ last.op # "flatten" => options[last.self].t = last.pre
       /\ last.op = "flatten" => last.arg = <<last.pre>>

C18_Witness ==
  /\ last.lvalue /\ last.op = "map" /\ last.pre = with(0)
  /\ last.arg = <<MaxVal>>
  /\ Returned = with(MaxVal) /\ options[last.self].t = with(0)

\* C19: xor_that(opt) on an rvalue returns an Option holding the value of
\* whichever of this Option and opt is Some when exactly one of them is, and
\* None when both or neither are; this Option is None afterwards; when both
\* are Some each of the two payloads is destroyed exactly once.
C19_XorThat ==
  (last.op = "xor_that" /\ ~last.lvalue) =>
    LET self == last.pre
        opt == last.arg[1]
    IN  /\ last.out # "-"
        /\ (self.state = Some /\ opt.state = None) =>
             options[last.out].t = with(self.val[1]) /\ last.drops = 0
        /\ (self.state = None /\ opt.state = Some) =>
             options[last.out].t = with(opt.val[1]) /\ last.drops = 0
        /\ (self.state = Some /\ opt.state = Some) =>
             options[last.out].t = OptionDefault /\ last.drops = 2
        /\ (self.state = None /\ opt.state = None) =>
             options[last.out].t = OptionDefault /\ last.drops = 0
        /\ options[last.self].t = OptionDefault
        /\ NoPayloadFault

C19_Witness ==
  /\ last.op = "xor_that" /\ ~last.lvalue
  /\ last.pre = with(0) /\ last.arg = <<with(MaxVal)>>
  /\ is_none(options[last.out].t) /\ is_none(options[last.self].t)
  /\ last.drops = 2

\* C20: replace(t) leaves the Option Some(t) and returns an Option holding
\* what it held before, None or Some(old); the old payload is handed to the
\* returned Option and is not destroyed.
C20_Replace ==
  last.op = "replace" =>
    /\ options[last.self].t = with(last.arg[1])
    /\ last.out # "-"
    /\ options[last.out].t = last.pre
    /\ last.drops = 0
    /\ NoPayloadFault

C20_Witness ==
  /\ last.op = "replace" /\ last.pre = with(0) /\ last.arg = <<MaxVal>>
  /\ options[last.self].t = with(MaxVal) /\ options[last.out].t = with(0)

GetOrInserts == {"get_or_insert", "get_or_insert_default", "get_or_insert_with"}

\* The value get_or_insert, get_or_insert_default or get_or_insert_with has to
\* store in an Option that is None: t, T() or f().
NewValue == IF last.op = "get_or_insert_default" THEN DefaultT ELSE last.arg[1]

\* C21: get_or_insert(t), get_or_insert_default() and get_or_insert_with(f):
\* an Option holding v still holds v afterwards and the reference returned
\* refers to v, f not being invoked and t not stored; an Option that is None
\* stores the new value (t, T() or f()) and the reference returned refers to
\* it; in both cases the Option is Some afterwards.
C21_GetOrInsert ==
  last.op \in GetOrInserts =>
    /\ is_some(options[last.self].t)
    /\ Live(options[last.self].t)
    /\ last.ret = options[last.self].t.val
    /\ last.returned /\ ~panicked /\ last.drops = 0
    /\ NoPayloadFault
    /\ is_some(last.pre) =>
         /\ options[last.self].t = last.pre
         /\ last.calls = 0
    /\ is_none(last.pre) =>
         /\ options[last.self].t = with(NewValue)
         /\ last.calls = (IF last.op = "get_or_insert_with" THEN 1 ELSE 0)

C21_Witness ==
  /\ last.op = "get_or_insert" /\ last.pre = with(0) /\ last.arg = <<MaxVal>>
  /\ options[last.self].t = with(0) /\ last.ret = <<0>>

\* ----------------------------------------------------------- Choice: claims

\* The levels of a Choice's storage that hold a live tuple_.
LiveLevels(c) == {I \in DOMAIN alts : TupleLive(c.storage, I)}

NoTupleFault(c) == ~c.storage.leak /\ ~c.storage.dead

\* What destroy(i) and a construction into i do to the tuple_ members.
Destroyed(i) == IF alts[i] = Nothing THEN <<>> ELSE << <<"destroy", i>> >>

Constructed(i) == IF alts[i] = Nothing THEN <<>> ELSE << <<"construct", i>> >>

Assigned(i) == IF alts[i] = Nothing THEN <<>> ELSE << <<"assign", i>> >>

\* C3: after a construction into alternative i the index is i, as<i>()
\* succeeds with the values constructed and as<j>() for any other j is a
\* contract violation that terminates the process; after a copy, move or
\* clone construction the new Choice has the index the source had and holds
\* the payload the source held before the call.
C3_DiscriminantConsistency ==
  /\ ~panicked =>
       \A s \in Slots : \A j \in DOMAIN alts :
         choices[s].alive =>
           (choice_as(choices[s], j).self.panic <=> j # choices[s].index)
  /\ lastC.op = "with" =>
       /\ choices[lastC.out].alive /\ ~panicked
       /\ choices[lastC.out].index = lastC.index
       /\ choice_as(choices[lastC.out], lastC.index).ret = <<lastC.arg>>
       /\ NoTupleFault(choices[lastC.out])
  /\ lastC.op = "as" /\ lastC.index = lastC.was =>
       /\ lastC.returned /\ ~panicked
       /\ lastC.ret = <<TupleVal(lastC.pre.storage, lastC.index)>>
       /\ choices[lastC.self] = lastC.pre
  /\ lastC.op = "as" /\ lastC.index # lastC.was =>
       panicked /\ ~lastC.returned /\ lastC.ret = <<>>
  /\ lastC.op \in {"copy", "move", "clone"} =>
       /\ choices[lastC.out].alive /\ ~panicked
       /\ choices[lastC.out].index = lastC.pre.index
       /\ choice_as(choices[lastC.out], lastC.pre.index).ret
            = choice_as(lastC.pre, lastC.pre.index).ret
       /\ alts[lastC.pre.index] # Nothing =>
            TupleLive(choices[lastC.out].storage, lastC.pre.index)
       /\ NoTupleFault(choices[lastC.out])
       /\ choices[lastC.self].index = lastC.pre.index
       /\ LiveLevels(choices[lastC.self]) = LiveLevels(lastC.pre)

C3_Witness ==
  /\ lastC.op = "clone" /\ lastC.pre.index = MaxAlts - 1
  /\ alts[0] = Nothing /\ alts[lastC.pre.index] = Many
  /\ choices[lastC.out].index = lastC.pre.index
  /\ TupleVal(choices[lastC.out].storage, lastC.pre.index) = <<MaxVal, 0>>

\* C4: destroy(index) on a storage whose live alternative is index destroys
\* the tuple_ of alternative index, once, and does nothing to the tuple_ of
\* any other level; the more_ members on the way down are ended; nothing is
\* left constructed.  An alternative of no value has no tuple_ to destroy.
C4_DestroyExactlyLive ==
  /\ ~panicked =>
       \A s \in Slots : choices[s].alive =>
         LET d == storage_destroy(choices[s].storage, 0, choices[s].index)
         IN  /\ d.log = Destroyed(choices[s].index)
             /\ ~d.panic /\ ~d.dead /\ ~d.leak
             /\ d.lv = NewStorage.lv
  /\ lastC.op = "~Choice" =>
       /\ lastC.log = Destroyed(lastC.index)
       /\ choices[lastC.self] = NoChoice
       /\ ~panicked

C4_Witness ==
  /\ lastC.op = "~Choice" /\ lastC.index = MaxAlts - 1
  /\ alts[lastC.index] # Nothing
  /\ lastC.log = << <<"destroy", lastC.index>> >>
  /\ choices[lastC.self] = NoChoice

\* A Choice that was destroyed holds nothing; an assignment within the active
\* alternative assigns to its tuple_ and neither destroys nor constructs; one
\* to a different alternative destroys the old tuple_, then constructs the
\* new one, and assigns to none.
C5_Reassignment ==
  /\ \A s \in Slots : ~choices[s].alive => LiveLevels(choices[s]) = {}
  /\ \A s \in Slots : choices[s].alive => NoTupleFault(choices[s])
  /\ lastC.op \in {"set", "copy_assign", "move_assign"} =>
       /\ ~panicked
       /\ choices[lastC.self].index = lastC.index
       /\ lastC.log = IF lastC.was = lastC.index
                      THEN Assigned(lastC.index)
                      ELSE Destroyed(lastC.was) \o Constructed(lastC.index)

\* C5 as stated: in every reachable state every Choice in its lifetime has
\* exactly one level holding a live payload, the level of its index.
C5_ExactlyOneLivePayload ==
  /\ \A s \in Slots : choices[s].alive /\ ~panicked =>
        /\ Cardinality(LiveLevels(choices[s])) = 1
        /\ LiveLevels(choices[s]) = {choices[s].index}
  /\ C5_Reassignment

\* C5, amended: in every reachable state the index of a Choice in its
\* lifetime names the one alternative constructed: the level of the index
\* holds the only live payload when that alternative carries values, and no
\* level holds a payload when it carries none; never do two levels hold one.
\* Reassignment to a different alternative destroys the old payload before it
\* constructs the new one and assigns to no tuple_.
C5_AtMostOneLivePayload ==
  /\ \A s \in Slots : choices[s].alive /\ ~panicked =>
        LiveLevels(choices[s]) =
          IF alts[choices[s].index] = Nothing THEN {} ELSE {choices[s].index}
  /\ C5_Reassignment

C5_Witness ==
  /\ lastC.op = "set" /\ lastC.was # lastC.index
  /\ alts[lastC.was] = One /\ alts[lastC.index] = Nothing
  /\ lastC.log = << <<"destroy", lastC.was>> >>
  /\ LiveLevels(choices[lastC.self]) = {}

\* C16: constructing a Choice into alternative i makes the more_ member of
\* each of the levels 0..i-1 active and constructs no payload in them; the
\* payload is constructed at level i only; and activate_for_construct(i)
\* leaves the storage as construct_choice_storage<i> does, which returns the
\* level find_choice_storage<i> finds.
C16_ConstructActivatesPath ==
  /\ \A i \in DOMAIN alts :
       LET a == activate_for_construct(NewStorage, 0, i)
           c == construct_choice_storage(NewStorage, 0, i)
       IN  /\ a = c.storage
           /\ c.level = i /\ find_choice_storage(0, i) = i
           /\ \A k \in DOMAIN alts : a.lv[k].more <=> k < i
           /\ LiveLevels([storage |-> a]) = {}
           /\ a.log = <<>> /\ ~a.panic
  /\ lastC.op = "with" =>
       LET st == choices[lastC.out].storage
       IN  /\ \A k \in DOMAIN alts : st.lv[k].more <=> k < lastC.index
           /\ LiveLevels(choices[lastC.out]) \subseteq {lastC.index}
           /\ alts[lastC.index] # Nothing =>
                st.lv[lastC.index].tuple = <<lastC.arg>>
           /\ lastC.log = Constructed(lastC.index)
           /\ ~st.leak /\ ~st.dead /\ ~panicked

C16_Witness ==
  /\ lastC.op = "with" /\ lastC.index = MaxAlts - 1
  /\ alts[0] = One /\ alts[lastC.index] = Many
  /\ choices[lastC.out].storage.lv[0].more
  /\ LiveLevels(choices[lastC.out]) = {lastC.index}

\* The comparison of the payloads the two Choices hold at level i.
PayloadsEqual(i) ==
  alts[i] = Nothing \/
    choices[Subject].storage.lv[i].tuple = choices[Other].storage.lv[i].tuple

PayloadsOrder(i) ==
  IF alts[i] = Nothing THEN "equivalent"
  ELSE TupleOrder(choices[Subject].storage.lv[i].tuple[1],
                  choices[Other].storage.lv[i].tuple[1])

\* C17: for two Choice storages with the same active index i, eq,
\* strong_ord, weak_ord and partial_ord each return the comparison of the two
\* payloads of level i, for every i and every shape of alternative at every
\* position of the list; an alternative of no value is equal and equivalent
\* to itself.
C17_ComparesActiveLevel ==
  /\ lastC.op = "eq" => lastC.equal = <<PayloadsEqual(lastC.index)>>
  /\ lastC.op \in {"strong_ord", "weak_ord", "partial_ord"} =>
       lastC.order = <<PayloadsOrder(lastC.index)>>

\* What the code gives: as C17, except that strong_ord has no result when an
\* alternative of several values stands before the last position.
C17_StrongOrdNeedsNoTupleBeforeLast ==
  /\ lastC.op = "eq" => lastC.equal = <<PayloadsEqual(lastC.index)>>
  /\ lastC.op \in {"weak_ord", "partial_ord"} =>
       lastC.order = <<PayloadsOrder(lastC.index)>>
  /\ lastC.op = "strong_ord" =>
       lastC.order = IF \E k \in DOMAIN alts : alts[k] = Many /\ ~IsLast(k)
                   THEN NoSuchMember
                   ELSE <<PayloadsOrder(lastC.index)>>

C17_Witness ==
  /\ lastC.op = "strong_ord" /\ DOMAIN alts = {0, 1} /\ alts[0] = Many /\ alts[1] = One
  /\ lastC.index = 1
  /\ choices[Subject].storage.lv[1].tuple # choices[Other].storage.lv[1].tuple
  /\ lastC.order = NoSuchMember

\* ---------------------------------------------------------- Iterators: claims

\* The positions of the items that are None, and the first of them.
NonePositions == {i \in DOMAIN items : is_none(items[i])}

FirstNone == CHOOSE i \in NonePositions : \A j \in NonePositions : i <= j

\* The values of the items, in order, all of them being Some.
AllValues == [i \in DOMAIN items |-> items[i].val[1]]

RECURSIVE Folded(_, _)
Folded(kind, vs) ==
  IF vs = <<>> THEN Unit(kind)
  ELSE Fold(kind, Folded(kind, SubSeq(vs, 1, Len(vs) - 1)), vs[Len(vs)])

\* C22: from_iter takes the items in order; when it meets an item that is
\* None it takes no further item from the source iterator and returns None;
\* when no item is None it returns Some of a container holding the value of
\* every item, in order.
C22_FromIter ==
  setup.kind = "from_iter" =>
    /\ NonePositions # {} => iter.pos <= FirstNone
    /\ iter.phase = "returned" =>
         IF NonePositions # {}
         THEN is_none(iter.result) /\ iter.pos = FirstNone
         ELSE iter.result = with(AllValues) /\ iter.pos = Len(items)

C22_Witness ==
  /\ setup.kind = "from_iter" /\ iter.phase = "returned"
  /\ Len(items) = MaxLen /\ NonePositions = {2}
  /\ is_none(iter.result) /\ iter.pos = 2

\* C23: from_product and from_sum return None when an item is None, whatever
\* the items before it were, and otherwise Some of the product, respectively
\* the sum, of the values of all the items.
C23_FromProductSum ==
  (setup.kind \in {"from_product", "from_sum"} /\ iter.phase = "returned") =>
    IF NonePositions # {}
    THEN is_none(iter.total)
    ELSE /\ is_some(iter.total) /\ Live(iter.total)
         /\ Val(iter.total) = Folded(setup.kind, AllValues)

C23_Witness ==
  /\ setup.kind = "from_sum" /\ iter.phase = "returned"
  /\ Len(items) = MaxLen /\ NonePositions = {}
  /\ \A i \in DOMAIN items : items[i] = with(MaxVal)
  /\ Val(iter.total) = MaxLen * MaxVal

\* The slice iterated has SliceLen elements; ChunkSize is the chunk size.
SliceLen == Len(items)

ChunkSize == setup.chunk_size

\* Only next() was called so far.
OnlyNext == \A k \in DOMAIN yields : yields[k].op = "next"

\* The chunks handed out so far, in the order of the calls.
Yielded == {k \in DOMAIN yields : yields[k].ret # <<>>}

\* The elements of the iterated slice a view covers.
Elements(s) == {s.ptr + i : i \in 1..s.len}

\* How many of the chunks handed out, and of the views in rems, cover p.
Covering(p, rems) ==
  Cardinality({k \in Yielded : p \in Elements(yields[k].ret[1])})
    + Cardinality({r \in rems : p \in Elements(r)})

\* C24: the k-th next() of Chunks and ChunksMut returns the chunk that starts
\* (k-1)*c elements into the slice and has c elements, or the n mod c elements
\* that are left at the end of the slice; once the slice is used up, next()
\* returns None. The chunks are therefore consecutive, do not overlap, and
\* together are the whole slice.
C24_Chunks ==
  (setup.kind \in ForwardKinds /\ OnlyNext) =>
    \A k \in DOMAIN yields :
      yields[k].ret =
        IF (k - 1) * ChunkSize < SliceLen
        THEN <<Slice((k - 1) * ChunkSize,
                     IF k * ChunkSize <= SliceLen THEN ChunkSize
                     ELSE SliceLen % ChunkSize)>>
        ELSE <<>>

C24_Witness ==
  /\ setup.kind = "ChunksMut" /\ OnlyNext
  /\ SliceLen = 5 /\ ChunkSize = 2
  /\ Len(yields) = 4
  /\ yields[3].ret = <<Slice(4, 1)>> /\ yields[4].ret = <<>>
  /\ \A p \in 1..SliceLen : Covering(p, {}) = 1

\* The remainder of an exact iterator: the n mod c elements at the end of the
\* slice, for RChunksExact at its start.
ExactRemainder ==
  IF setup.kind \in ForwardExactKinds
  THEN Slice(SliceLen - (SliceLen % ChunkSize), SliceLen % ChunkSize)
  ELSE Slice(0, SliceLen % ChunkSize)

\* C25: every chunk that next() or next_back() of ChunksExact, ChunksExactMut,
\* RChunksExact and RChunksExactMut returns has exactly chunk_size elements;
\* remainder() returns the n mod chunk_size elements at the end of the slice
\* (at its start for the reverse iterators), none of which is in a chunk; and
\* once the iterator is used up, the chunks and the remainder partition the
\* slice.
C25_ExactChunks ==
  setup.kind \in ExactKinds =>
    /\ \A k \in Yielded : yields[k].ret[1].len = ChunkSize
    /\ iter.remainder # <<>> => iter.remainder = <<ExactRemainder>>
    /\ iter.rem_ = ExactRemainder
    /\ \A p \in 1..SliceLen : Covering(p, {iter.rem_}) <= 1
    /\ Yielded # DOMAIN yields =>
         \A p \in 1..SliceLen : Covering(p, {iter.rem_}) = 1

C25_Witness ==
  /\ setup.kind = "RChunksExact" /\ SliceLen = 5 /\ ChunkSize = 2
  /\ iter.remainder = <<Slice(0, 1)>>
  /\ Len(yields) = 3
  /\ yields[1] = [op |-> "next", ret |-> <<Slice(3, 2)>>]
  /\ yields[2] = [op |-> "next_back", ret |-> <<Slice(1, 2)>>]
  /\ yields[3].ret = <<>>

\* C26: the k-th next() of RChunks and RChunksMut returns the c elements just
\* before the chunk returned before it, the first one ending at the end of the
\* slice; the last chunk is the leading n mod c elements when c does not
\* divide n. Together the chunks cover every element exactly once.
C26_RChunks ==
  (setup.kind \in ReverseKinds /\ OnlyNext) =>
    /\ \A k \in DOMAIN yields :
         yields[k].ret =
           IF (k - 1) * ChunkSize < SliceLen
           THEN IF k * ChunkSize <= SliceLen
                THEN <<Slice(SliceLen - k * ChunkSize, ChunkSize)>>
                ELSE <<Slice(0, SliceLen % ChunkSize)>>
           ELSE <<>>
    /\ \A p \in 1..SliceLen : Covering(p, {}) <= 1
    /\ Yielded # DOMAIN yields => \A p \in 1..SliceLen : Covering(p, {}) = 1

C26_Witness ==
  /\ setup.kind = "RChunks" /\ OnlyNext
  /\ SliceLen = 5 /\ ChunkSize = 3
  /\ Len(yields) = 3
  /\ yields[1].ret = <<Slice(2, 3)>> /\ yields[2].ret = <<Slice(0, 2)>>
  /\ yields[3].ret = <<>>

\* The length of the longest prefix of items on which the predicate is true.
PrefixLen ==
  CHOOSE n \in 0..Len(items) :
    /\ \A i \in 1..n : setup.pred[items[i]]
    /\ n < Len(items) => ~setup.pred[items[n + 1]]

\* What a call returned: the item at a position, or None.
ItemAt(out) == IF out = <<>> THEN <<>> ELSE <<items[out[1]]>>

\* C27: the items that successive calls of TakeWhile::next() return are the
\* items of the longest prefix on which the predicate is true, in order, and
\* None from then on.
C27_TakeWhile ==
  setup.kind = "TakeWhile" =>
    \A k \in DOMAIN yields :
      yields[k].ret = IF k <= PrefixLen THEN <<k>> ELSE <<>>

C27_Witness ==
  /\ setup.kind = "TakeWhile" /\ Len(items) = 3 /\ PrefixLen = 1
  /\ setup.pred[items[3]]
  /\ Len(yields) = 3
  /\ ItemAt(yields[1].ret) = <<items[1]>>
  /\ yields[2].ret = <<>> /\ yields[3].ret = <<>>

\* C28: the items that successive calls of SkipWhile::next() return are the
\* items after the longest prefix on which the predicate is true, in order;
\* and the predicate is not invoked again after it has returned false.
C28_SkipWhile ==
  setup.kind = "SkipWhile" =>
    /\ \A k \in DOMAIN yields :
         yields[k].ret = IF PrefixLen + k <= Len(items) THEN <<PrefixLen + k>>
                         ELSE <<>>
    /\ \A i \in DOMAIN iter.log : ~iter.log[i].ret => i = Len(iter.log)

C28_Witness ==
  /\ setup.kind = "SkipWhile" /\ Len(items) = 3 /\ PrefixLen = 1
  /\ setup.pred[items[3]]
  /\ Len(yields) = 3 /\ yields[3].ret = <<>>
  /\ ItemAt(yields[1].ret) = <<items[2]>>
  /\ ItemAt(yields[2].ret) = <<items[3]>>
  /\ Len(iter.log) = 2 /\ ~iter.log[2].ret

\* The positions of the items the predicate is true of, and those among them
\* with exactly j such positions before, respectively after, them.
Matching == {i \in DOMAIN items : setup.pred[items[i]]}

FromFront(j) == {i \in Matching : Cardinality({m \in Matching : m < i}) = j}

FromBack(j) == {i \in Matching : Cardinality({m \in Matching : m > i}) = j}

\* The calls of a method that returned an item and came before call k.
Before(op, k) ==
  {j \in 1..(k - 1) : yields[j].op = op /\ yields[j].ret # <<>>}

\* C29: Filter returns only items the predicate is true of: next() the first
\* of them that no call has returned yet, next_back() the last of them, so
\* that under any interleaving of the two each such item is returned exactly
\* once, and None when there is none left.
C29_FilterYields ==
  setup.kind = "Filter" =>
    \A k \in DOMAIN yields :
      LET left == Matching \ {yields[j].ret[1] :
                                j \in Before("next", k) \cup Before("next_back", k)}
      IN  /\ yields[k].ret = <<>> <=> left = {}
          /\ yields[k].ret # <<>> =>
               /\ yields[k].ret[1] \in left
               /\ yields[k].op = "next" =>
                    yields[k].ret[1] \in FromFront(Cardinality(Before("next", k)))
               /\ yields[k].op = "next_back" =>
                    yields[k].ret[1] \in FromBack(Cardinality(Before("next_back", k)))

\* C29: and every call of next() and next_back() of Filter returns.
C29_Filter ==
  /\ [](C29_FilterYields)
  /\ [](setup.kind = "Filter" => [](iter.call # "idle" => <>(iter.call = "idle")))

C29_Witness ==
  /\ setup.kind = "Filter" /\ Len(items) = 3
  /\ Matching = {1, 3}
  /\ Len(yields) = 3
  /\ yields[1] = [op |-> "next_back", ret |-> <<3>>]
  /\ yields[2] = [op |-> "next", ret |-> <<1>>]
  /\ yields[3] = [op |-> "next", ret |-> <<>>]
  /\ iter.call = "idle"

====
